---- MODULE Spec2Model ----
(***************************************************************************)
(* sonar: the tokenizer (Lexer::tokenize) and the precedence-climbing      *)
(* parser (Parser::parse) of a small expression language.                  *)
(*                                                                         *)
(* Source text is a sequence of one-character strings.  Offsets, the       *)
(* lexer's index and the parser's cursor current_ are 0-based as in the    *)
(* code; a TLA+ sequence is 1-based, so source[i + 1] is the code's        *)
(* source[i].                                                              *)
(***************************************************************************)
EXTENDS Integers, Sequences, FiniteSets, TLC

VARIABLES
    source,         \* Lexer::tokenize's argument
    index,          \* tokenize: std::size_t index
    tokens,         \* tokenize: result.tokens
    line_offsets,   \* tokenize: result.line_offsets
    lexState,       \* "scanning", "ok" (returned) or "error" (threw)
    lexError,       \* the std::runtime_error tokenize threw, or NoError
    tokens_,        \* Parser::tokens_
    line_offsets_,  \* Parser::line_offsets_
    current_,       \* Parser::current_
    stack,          \* the parser's call stack, innermost frame first
    ret,            \* the value the last returned parser routine produced
    outcome,        \* parse(): "idle", "running", "ok" (returned) or "error" (threw)
    parseError,     \* the ParseError parse() threw, or NoError
    source_name_,   \* Parser::source_name_
    replAt,         \* repl(): "input" (console.input), "print_ast" or "done"
    prompt,         \* repl(): std::string prompt
    buffer,         \* repl(): std::string buffer
    snippet_index,  \* repl(): std::size_t snippet_index
    current_source_name,    \* repl(): std::string current_source_name
    cerr,           \* the line last written to std::cerr, <<>> before any
    raw_input       \* repl(): what console.input last returned

lexVars == <<source, index, tokens, line_offsets, lexState, lexError>>
parserVars ==
    <<tokens_, line_offsets_, current_, stack, ret, outcome, parseError,
      source_name_>>
replVars ==
    <<replAt, prompt, buffer, snippet_index, current_source_name, cerr,
      raw_input>>
vars ==
    <<source, index, tokens, line_offsets, lexState, lexError,
      tokens_, line_offsets_, current_, stack, ret, outcome, parseError,
      source_name_,
      replAt, prompt, buffer, snippet_index, current_source_name, cerr,
      raw_input>>

\* a message is a sequence of parts: literal text and characters of the source
NoError == [message |-> <<"none">>]
NoValue == [kind |-> "none"]

(***************************************************************************)
(* Characters                                                              *)
(***************************************************************************)
NUL == "NUL"   \* the '\0' peek() returns past the end of the source

VT == "VT"     \* the vertical tab, which a TLA+ string cannot escape

Digits == {"0", "1", "2", "3", "4", "5", "6", "7", "8", "9"}

Letters ==
    {"a", "b", "c", "d", "e", "f", "g", "h", "i", "j", "k", "l", "m",
     "n", "o", "p", "q", "r", "s", "t", "u", "v", "w", "x", "y", "z",
     "A", "B", "C", "D", "E", "F", "G", "H", "I", "J", "K", "L", "M",
     "N", "O", "P", "Q", "R", "S", "T", "U", "V", "W", "X", "Y", "Z"}

is_digit(ch) == ch \in Digits

isalpha(ch) == ch \in Letters

isalnum(ch) == ch \in Letters \cup Digits

isspace(ch) == ch \in {" ", "\t", "\n", "\r", "\f", VT}

(***************************************************************************)
(* Tokens, spans and locations                                             *)
(***************************************************************************)
SourceSpan(s, e) == [start |-> s, end |-> e]

Token(type, lexeme, s, e) ==
    [type |-> type, lexeme |-> lexeme, span |-> SourceSpan(s, e)]

\* source.substr(start, length)
Substr(src, start, length) == SubSeq(src, start + 1, start + length)

\* libstdc++'s std::upper_bound over v[first .. first + len), 0-based:
\* the first position whose element is greater than val.
RECURSIVE UpperBound(_, _, _, _)
UpperBound(v, first, len, val) ==
    IF len <= 0 THEN first
    ELSE LET half == len \div 2
             mid == first + half
         IN  IF val < v[mid + 1]
             THEN UpperBound(v, first, half, val)
             ELSE UpperBound(v, mid + 1, len - half - 1, val)

\* location_for, had the column been counted from the start of the source
location_for_whole_source(offsets, offset) ==
    LET it == UpperBound(offsets, 0, Len(offsets), offset)
        line_index == IF it = 0 THEN 0 ELSE it - 1
    IN  [line |-> line_index + 1, column |-> offset + 1]

location_for(offsets, offset) ==
    LET it == UpperBound(offsets, 0, Len(offsets), offset)
        line_index == IF it = 0 THEN 0 ELSE it - 1
    IN  [line |-> line_index + 1,
         column |-> offset - offsets[line_index + 1] + 1]

\* tokenize's make_error lambda: the message with the location of offset
\* under the line offsets recorded so far.  what() holds only the message,
\* the line and the column; offset is the argument make_error was given.
LexMakeError(message, offset, offsets) ==
    LET location == location_for(offsets, offset)
    IN  [message |-> message, offset |-> offset,
         line |-> location.line, column |-> location.column]

(***************************************************************************)
(* The state of one tokenize call, as a record the scanning steps map.     *)
(***************************************************************************)
LexRecord(i, toks, offsets, state, error) ==
    [index |-> i, tokens |-> toks, line_offsets |-> offsets,
     state |-> state, error |-> error]

LexStart == LexRecord(0, <<>>, <<0>>, "scanning", NoError)

LexPush(s, token, i) ==
    [s EXCEPT !.tokens = Append(@, token), !.index = i]

LexThrow(s, message, offset, offsets) ==
    [s EXCEPT !.state = "error", !.line_offsets = offsets,
              !.error = LexMakeError(message, offset, offsets)]

\* tokenize's peek lambda
LexPeek(src, i, lookahead) ==
    IF i + lookahead < Len(src) THEN src[i + lookahead + 1] ELSE NUL

keyword_or_identifier(lexeme) ==
    CASE lexeme = <<"l", "e", "t">> -> "Let"
      [] lexeme = <<"f", "n">> -> "Fn"
      [] lexeme = <<"i", "f">> -> "If"
      [] lexeme = <<"e", "l", "s", "e">> -> "Else"
      [] lexeme = <<"f", "o", "r">> -> "For"
      [] lexeme = <<"w", "h", "i", "l", "e">> -> "While"
      [] lexeme = <<"i", "n">> -> "In"
      [] lexeme = <<"t", "r", "u", "e">> -> "True"
      [] lexeme = <<"f", "a", "l", "s", "e">> -> "False"
      [] OTHER -> "Identifier"

\* the loops "while (index < source.size() && <class>(source[index])) ++index"
RECURSIVE IdentEnd(_, _)
IdentEnd(src, i) ==
    IF i < Len(src) /\ (isalnum(src[i + 1]) \/ src[i + 1] = "_")
    THEN IdentEnd(src, i + 1)
    ELSE i

\* DigitsEnd, had the loop been an if
DigitsEndOne(src, i) ==
    IF i < Len(src) /\ is_digit(src[i + 1]) THEN i + 1 ELSE i

RECURSIVE DigitsEnd(_, _)
DigitsEnd(src, i) ==
    IF i < Len(src) /\ is_digit(src[i + 1]) THEN DigitsEnd(src, i + 1) ELSE i

scan_ident(src, s) ==
    LET start == s.index
        stop == IdentEnd(src, start + 1)
        lexeme == Substr(src, start, stop - start)
    IN  LexPush(s, Token(keyword_or_identifier(lexeme), lexeme, start, stop), stop)

scan_number(src, s) ==
    LET start == s.index
        leading_dot == src[start + 1] = "."
        int_end == IF leading_dot THEN start + 1 ELSE DigitsEnd(src, start)
        seen_dot == leading_dot \/ (int_end < Len(src) /\ src[int_end + 1] = ".")
        frac_start == IF ~leading_dot /\ seen_dot THEN int_end + 1 ELSE int_end
        frac_end == IF seen_dot THEN DigitsEnd(src, frac_start) ELSE frac_start
        has_exponent == frac_end < Len(src) /\ src[frac_end + 1] \in {"e", "E"}
        sign_at == frac_end + 1
        exp_start == IF sign_at < Len(src) /\ src[sign_at + 1] \in {"+", "-"}
                     THEN sign_at + 1 ELSE sign_at
        stop == IF has_exponent THEN DigitsEnd(src, exp_start) ELSE frac_end
    IN  IF leading_dot /\ (int_end >= Len(src) \/ ~is_digit(src[int_end + 1]))
        THEN LexThrow(s, <<"Standalone '.' is not a valid number">>, start,
                      s.line_offsets)
        ELSE IF has_exponent
                /\ (exp_start >= Len(src) \/ ~is_digit(src[exp_start + 1]))
        THEN LexThrow(s, <<"Invalid exponent in number literal">>, exp_start,
                      s.line_offsets)
        ELSE LexPush(s, Token("Number", Substr(src, start, stop - start),
                              start, stop), stop)

\* StringBody, had a backslash before an unknown character been dropped and
\* the character kept
RECURSIVE StringBodyLenient(_, _, _, _, _)
StringBodyLenient(src, s, start, i, value) ==
    IF i >= Len(src)
    THEN LexThrow(s, <<"Unterminated string literal">>, start, s.line_offsets)
    ELSE LET ch == src[i + 1] IN
         IF ch = "\""
         THEN LexPush(s, Token("String", value, start, i + 1), i + 1)
         ELSE IF ch = "\\"
         THEN IF i + 1 >= Len(src)
              THEN LexThrow(s, <<"Unterminated escape sequence in string literal">>,
                            start, s.line_offsets)
              ELSE LET escape == src[i + 2] IN
                   CASE escape = "n" -> StringBodyLenient(src, s, start, i + 2, Append(value, "\n"))
                     [] escape = "t" -> StringBodyLenient(src, s, start, i + 2, Append(value, "\t"))
                     [] OTHER -> StringBodyLenient(src, s, start, i + 2, Append(value, escape))
         ELSE IF ch = "\n"
         THEN LexThrow(s, <<"Unterminated string literal">>, i, s.line_offsets)
         ELSE StringBodyLenient(src, s, start, i + 1, Append(value, ch))

\* the body loop of scan_string_literal, from index i with value decoded so far
RECURSIVE StringBody(_, _, _, _, _)
StringBody(src, s, start, i, value) ==
    IF i >= Len(src)
    THEN LexThrow(s, <<"Unterminated string literal">>, start, s.line_offsets)
    ELSE LET ch == src[i + 1] IN
         IF ch = "\""
         THEN LexPush(s, Token("String", value, start, i + 1), i + 1)
         ELSE IF ch = "\\"
         THEN IF i + 1 >= Len(src)
              THEN LexThrow(s, <<"Unterminated escape sequence in string literal">>,
                            start, s.line_offsets)
              ELSE LET escape == src[i + 2] IN
                   CASE escape = "n" -> StringBody(src, s, start, i + 2, Append(value, "\n"))
                     [] escape = "t" -> StringBody(src, s, start, i + 2, Append(value, "\t"))
                     [] escape = "r" -> StringBody(src, s, start, i + 2, Append(value, "\r"))
                     [] escape = "\\" -> StringBody(src, s, start, i + 2, Append(value, "\\"))
                     [] escape = "\"" -> StringBody(src, s, start, i + 2, Append(value, "\""))
                     [] OTHER -> LexThrow(s, <<"Unknown escape sequence '\\", escape, "'">>,
                                          i, s.line_offsets)
         ELSE IF ch = "\n"
         THEN LexThrow(s, <<"Unterminated string literal">>, i, s.line_offsets)
         ELSE StringBody(src, s, start, i + 1, Append(value, ch))

scan_string_literal(src, s) ==
    StringBody(src, s, s.index, s.index + 1, <<>>)

\* the loops of scan_raw_string_literal that count '#'
RECURSIVE HashesEnd(_, _)
HashesEnd(src, i) ==
    IF i < Len(src) /\ src[i + 1] = "#" THEN HashesEnd(src, i + 1) ELSE i

\* MatchedHashes, had any '"' been taken for the closer
MatchedHashesAlways(src, closing_index, matched_hashes, hash_count) ==
    hash_count

RECURSIVE MatchedHashes(_, _, _, _)
MatchedHashes(src, closing_index, matched_hashes, hash_count) ==
    IF matched_hashes < hash_count /\ closing_index < Len(src)
       /\ src[closing_index + 1] = "#"
    THEN MatchedHashes(src, closing_index + 1, matched_hashes + 1, hash_count)
    ELSE matched_hashes

\* RawStringBody, had it copied a newline without recording it
RECURSIVE RawStringBodyNoNewlines(_, _, _, _, _, _, _)
RawStringBodyNoNewlines(src, s, start, hash_count, i, value, offsets) ==
    IF i >= Len(src)
    THEN LexThrow(s, <<"Unterminated raw string literal">>, start, offsets)
    ELSE LET ch == src[i + 1] IN
         IF ch = "\"" /\ MatchedHashes(src, i + 1, 0, hash_count) = hash_count
         THEN [LexPush(s, Token("String", value, start, i + 1 + hash_count),
                       i + 1 + hash_count)
               EXCEPT !.line_offsets = offsets]
         ELSE RawStringBodyNoNewlines(src, s, start, hash_count, i + 1,
                                      Append(value, ch), offsets)

\* the body loop of scan_raw_string_literal; offsets is line_offsets so far
RECURSIVE RawStringBody(_, _, _, _, _, _, _)
RawStringBody(src, s, start, hash_count, i, value, offsets) ==
    IF i >= Len(src)
    THEN LexThrow(s, <<"Unterminated raw string literal">>, start, offsets)
    ELSE LET ch == src[i + 1] IN
         IF ch = "\""
         THEN IF MatchedHashes(src, i + 1, 0, hash_count) = hash_count
              THEN [LexPush(s, Token("String", value, start, i + 1 + hash_count),
                            i + 1 + hash_count)
                    EXCEPT !.line_offsets = offsets]
              ELSE RawStringBody(src, s, start, hash_count, i + 1,
                                 Append(value, "\""), offsets)
         ELSE IF ch = "\n"
         THEN RawStringBody(src, s, start, hash_count, i + 1,
                            Append(value, "\n"), Append(offsets, i + 1))
         ELSE RawStringBody(src, s, start, hash_count, i + 1,
                            Append(value, ch), offsets)

scan_raw_string_literal(src, s) ==
    LET start == s.index
        quote_at == HashesEnd(src, start + 1)
        hash_count == quote_at - (start + 1)
    IN  IF quote_at >= Len(src) \/ src[quote_at + 1] # "\""
        THEN LexThrow(s, <<"Invalid raw string literal">>, quote_at, s.line_offsets)
        ELSE RawStringBody(src, s, start, hash_count, quote_at + 1, <<>>,
                           s.line_offsets)

\* LineCommentEnd, had the comment taken the newline that ends it
RECURSIVE LineCommentEndPastNewline(_, _)
LineCommentEndPastNewline(src, i) ==
    IF i >= Len(src) THEN i
    ELSE IF src[i + 1] = "\n" THEN i + 1
    ELSE LineCommentEndPastNewline(src, i + 1)

\* "//": while (index < source.size() && peek() != '\n') ++index
RECURSIVE LineCommentEnd(_, _)
LineCommentEnd(src, i) ==
    IF i < Len(src) /\ src[i + 1] # "\n" THEN LineCommentEnd(src, i + 1) ELSE i

\* BlockCommentBody, had it stepped over a newline without recording it
RECURSIVE BlockCommentBodyNoNewlines(_, _, _, _)
BlockCommentBodyNoNewlines(src, s, i, offsets) ==
    IF i >= Len(src)
    THEN LexThrow(s, <<"Unterminated block comment">>, i, offsets)
    ELSE IF src[i + 1] = "*" /\ LexPeek(src, i, 1) = "/"
    THEN [s EXCEPT !.index = i + 2, !.line_offsets = offsets]
    ELSE BlockCommentBodyNoNewlines(src, s, i + 1, offsets)

\* "/*": the loop that looks for the closing "*/", recording newlines
RECURSIVE BlockCommentBody(_, _, _, _)
BlockCommentBody(src, s, i, offsets) ==
    IF i >= Len(src)
    THEN LexThrow(s, <<"Unterminated block comment">>, i, offsets)
    ELSE IF src[i + 1] = "\n"
    THEN BlockCommentBody(src, s, i + 1, Append(offsets, i + 1))
    ELSE IF src[i + 1] = "*" /\ LexPeek(src, i, 1) = "/"
    THEN [s EXCEPT !.index = i + 2, !.line_offsets = offsets]
    ELSE BlockCommentBody(src, s, i + 1, offsets)

(***************************************************************************)
(* One iteration of tokenize's main loop, by the branch the code takes.    *)
(***************************************************************************)
\* the cases of the switch that push a one-character token whatever follows
SingleCharType(ch) ==
    CASE ch = "+" -> "Plus"
      [] ch = "*" -> "Star"
      [] ch = "(" -> "LeftParen"
      [] ch = ")" -> "RightParen"
      [] ch = "," -> "Comma"
      [] ch = "=" -> "Equals"
      [] ch = ":" -> "Colon"
      [] ch = "{" -> "LeftBrace"
      [] ch = "}" -> "RightBrace"
      [] ch = ";" -> "Semicolon"
      [] OTHER -> "none"

\* which branch of the loop body the character at index takes
LexBranch(src, s) ==
    IF s.index >= Len(src) THEN "end"
    ELSE LET ch == src[s.index + 1] IN
         CASE ch = "\n" -> "newline"
           [] ch # "\n" /\ isspace(ch) -> "space"
           [] SingleCharType(ch) # "none" -> "single"
           [] ch = "-" -> "minus"
           [] ch = "/" -> "slash"
           [] ch = "&" -> "ampersand"
           [] ch = "|" -> "pipe"
           [] is_digit(ch) \/ ch = "." -> "number"
           [] ch = "\"" -> "string"
           [] ch = "r" /\ LexPeek(src, s.index, 1) \in {"\"", "#"} -> "raw_string"
           [] (isalpha(ch) \/ ch = "_")
              /\ ~(ch = "r" /\ LexPeek(src, s.index, 1) \in {"\"", "#"}) -> "ident"
           [] OTHER -> "unexpected"

StepNewline(src, s) ==
    [s EXCEPT !.index = s.index + 1,
              !.line_offsets = Append(@, s.index + 1)]

StepSpace(src, s) == [s EXCEPT !.index = s.index + 1]

StepSingle(src, s) ==
    LET ch == src[s.index + 1]
    IN  LexPush(s, Token(SingleCharType(ch), <<ch>>, s.index, s.index + 1),
                s.index + 1)

\* StepDouble, had the index moved past one character only
StepDoubleNoSkip(src, s, partner, double, single) ==
    LET ch == src[s.index + 1] IN
    IF LexPeek(src, s.index, 1) = partner
    THEN LexPush(s, Token(double, <<ch, partner>>, s.index, s.index + 2),
                 s.index + 1)
    ELSE LexPush(s, Token(single, <<ch>>, s.index, s.index + 1), s.index + 1)

\* one of "-" "&" "|" and the character that makes it a two-character token
StepDouble(src, s, partner, double, single) ==
    LET ch == src[s.index + 1] IN
    IF LexPeek(src, s.index, 1) = partner
    THEN LexPush(s, Token(double, <<ch, partner>>, s.index, s.index + 2),
                 s.index + 2)
    ELSE LexPush(s, Token(single, <<ch>>, s.index, s.index + 1), s.index + 1)

\* StepMinus, had '-' never looked ahead
StepMinusSingle(src, s) ==
    LexPush(s, Token("Minus", <<"-">>, s.index, s.index + 1), s.index + 1)

StepMinus(src, s) == StepDouble(src, s, ">", "Arrow", "Minus")

StepAmpersand(src, s) == StepDouble(src, s, "&", "AndAnd", "Ampersand")

StepPipe(src, s) == StepDouble(src, s, "|", "OrOr", "Pipe")

StepSlash(src, s) ==
    IF LexPeek(src, s.index, 1) = "/"
    THEN [s EXCEPT !.index = LineCommentEnd(src, s.index + 2)]
    ELSE IF LexPeek(src, s.index, 1) = "*"
    THEN BlockCommentBody(src, s, s.index + 2, s.line_offsets)
    ELSE LexPush(s, Token("Slash", <<"/">>, s.index, s.index + 1), s.index + 1)

StepUnexpected(src, s) ==
    LexThrow(s, <<"Unexpected character '", src[s.index + 1], "'">>, s.index,
             s.line_offsets)

\* StepEnd, had the End token kept a default-constructed span
StepEndDefaultSpan(src, s) ==
    [LexPush(s, Token("End", <<>>, 0, 0), s.index) EXCEPT !.state = "ok"]

\* after the loop: the End token, and tokenize returns
StepEnd(src, s) ==
    [LexPush(s, Token("End", <<>>, Len(src), Len(src)), s.index)
     EXCEPT !.state = "ok"]

LexStep(src, s) ==
    LET branch == LexBranch(src, s) IN
    CASE branch = "end" -> StepEnd(src, s)
      [] branch = "newline" -> StepNewline(src, s)
      [] branch = "space" -> StepSpace(src, s)
      [] branch = "single" -> StepSingle(src, s)
      [] branch = "minus" -> StepMinus(src, s)
      [] branch = "slash" -> StepSlash(src, s)
      [] branch = "ampersand" -> StepAmpersand(src, s)
      [] branch = "pipe" -> StepPipe(src, s)
      [] branch = "number" -> scan_number(src, s)
      [] branch = "string" -> scan_string_literal(src, s)
      [] branch = "raw_string" -> scan_raw_string_literal(src, s)
      [] branch = "ident" -> scan_ident(src, s)
      [] OTHER -> StepUnexpected(src, s)

\* Lexer::tokenize from start to return or throw
RECURSIVE LexRun(_, _)
LexRun(src, s) ==
    IF s.state # "scanning" THEN s ELSE LexRun(src, LexStep(src, s))

tokenize(src) == LexRun(src, LexStart)

(***************************************************************************)
(* The lexer as actions: one per branch of the loop body.                  *)
(***************************************************************************)
LexNow == LexRecord(index, tokens, line_offsets, lexState, lexError)

LexSet(s) ==
    /\ index' = s.index
    /\ tokens' = s.tokens
    /\ line_offsets' = s.line_offsets
    /\ lexState' = s.state
    /\ lexError' = s.error
    /\ UNCHANGED replVars

LexAt(branch) ==
    /\ lexState = "scanning"
    /\ LexBranch(source, LexNow) = branch

LexNewline ==
    /\ LexAt("newline")
    /\ LexSet(StepNewline(source, LexNow))
    /\ UNCHANGED <<source, parserVars>>

LexSpace ==
    /\ LexAt("space")
    /\ LexSet(StepSpace(source, LexNow))
    /\ UNCHANGED <<source, parserVars>>

LexSingle ==
    /\ LexAt("single")
    /\ LexSet(StepSingle(source, LexNow))
    /\ UNCHANGED <<source, parserVars>>

LexMinus ==
    /\ LexAt("minus")
    /\ LexSet(StepMinus(source, LexNow))
    /\ UNCHANGED <<source, parserVars>>

LexSlash ==
    /\ LexAt("slash")
    /\ LexSet(StepSlash(source, LexNow))
    /\ UNCHANGED <<source, parserVars>>

LexAmpersand ==
    /\ LexAt("ampersand")
    /\ LexSet(StepAmpersand(source, LexNow))
    /\ UNCHANGED <<source, parserVars>>

LexPipe ==
    /\ LexAt("pipe")
    /\ LexSet(StepPipe(source, LexNow))
    /\ UNCHANGED <<source, parserVars>>

LexNumber ==
    /\ LexAt("number")
    /\ LexSet(scan_number(source, LexNow))
    /\ UNCHANGED <<source, parserVars>>

LexString ==
    /\ LexAt("string")
    /\ LexSet(scan_string_literal(source, LexNow))
    /\ UNCHANGED <<source, parserVars>>

LexRawString ==
    /\ LexAt("raw_string")
    /\ LexSet(scan_raw_string_literal(source, LexNow))
    /\ UNCHANGED <<source, parserVars>>

LexIdent ==
    /\ LexAt("ident")
    /\ LexSet(scan_ident(source, LexNow))
    /\ UNCHANGED <<source, parserVars>>

LexUnexpected ==
    /\ LexAt("unexpected")
    /\ LexSet(StepUnexpected(source, LexNow))
    /\ UNCHANGED <<source, parserVars>>

LexEnd ==
    /\ LexAt("end")
    /\ LexSet(StepEnd(source, LexNow))
    /\ UNCHANGED <<source, parserVars>>

LexNext ==
    \/ LexNewline
    \/ LexSpace
    \/ LexSingle
    \/ LexMinus
    \/ LexSlash
    \/ LexAmpersand
    \/ LexPipe
    \/ LexNumber
    \/ LexString
    \/ LexRawString
    \/ LexIdent
    \/ LexUnexpected
    \/ LexEnd

\* The sources the lexer specification scans: every string of up to
\* MaxSourceLen characters over LexChars (one or more characters of every
\* class the scanner tells apart), and every string of up to MaxLineSourceLen
\* characters over LineChars (newlines, comments, raw strings and an
\* unexpected character).
LexChars ==
    {"\n", " ", "+", "-", ">", "/", "*", "&", "|", "1", ".", "e",
     "\"", "\\", "r", "#", "@"}

LineChars == {"\n", "/", "*", "r", "\"", "@"}

MaxSourceLen == 3

MaxLineSourceLen == 6

Strings(chars, maxLen) == UNION {[1..n -> chars] : n \in 0..maxLen}

\* raw strings: r, up to MaxHashes '#', '"', then up to MaxRawBody characters
\* over RawBodyChars (content, closers and under-matched closers)
RawBodyChars == {"\"", "#", "a", "\\", "\n"}

MaxHashes == 2

MaxRawBody == 5

RawSources ==
    {<<"r">> \o [k \in 1..n |-> "#"] \o <<"\"">> \o body :
        n \in 0..MaxHashes, body \in Strings(RawBodyChars, MaxRawBody)}

\* quoted strings: '"', then up to MaxQuotedBody characters over
\* QuotedBodyChars (content, escapes, a newline and the closing quote)
QuotedBodyChars == {"\"", "\\", "n", "t", "r", "a", "\n"}

MaxQuotedBody == 4

QuotedSources ==
    {<<"\"">> \o body : body \in Strings(QuotedBodyChars, MaxQuotedBody)}

\* numbers: up to MaxNumberLen characters over NumberChars (digits, the
\* point, the exponent markers and the signs)
NumberChars == {"1", "2", ".", "e", "E", "+", "-"}

MaxNumberLen == 5

NumberSources == Strings(NumberChars, MaxNumberLen)

LexSources ==
    Strings(LexChars, MaxSourceLen)
    \cup Strings(LineChars, MaxLineSourceLen)
    \cup RawSources
    \cup QuotedSources
    \cup NumberSources

primary_prompt == <<"sonar> ">>

continuation_prompt == <<"... ">>

\* repl() before its loop; also the values when repl() is not running
\* what console.input returns: a line, or nullptr at the end of the input
InputLine(line) == [null |-> FALSE, line |-> line]

NullInput == [null |-> TRUE, line |-> <<>>]

ReplStart ==
    /\ replAt = "input"
    /\ raw_input = InputLine(<<>>)
    /\ prompt = primary_prompt
    /\ buffer = <<>>
    /\ snippet_index = 1
    /\ current_source_name = <<>>
    /\ cerr = <<>>

ParserIdle ==
    /\ tokens_ = <<>>
    /\ line_offsets_ = <<>>
    /\ current_ = 0
    /\ stack = <<>>
    /\ ret = NoValue
    /\ outcome = "idle"
    /\ parseError = NoError
    /\ source_name_ = ""

LexInit ==
    /\ source \in LexSources
    /\ index = LexStart.index
    /\ tokens = LexStart.tokens
    /\ line_offsets = LexStart.line_offsets
    /\ lexState = LexStart.state
    /\ lexError = LexStart.error
    /\ ParserIdle
    /\ ReplStart

SpecLex == LexInit /\ [][LexNext]_vars

(***************************************************************************)
(* Parser: cursor primitives.  Each takes the cursor value c it starts     *)
(* from, because one step of the parser may consume several tokens.        *)
(***************************************************************************)
Back == tokens_[Len(tokens_)]

\* peek(), and peek(offset) with its clamp to the last token
PeekAt(c, offset) ==
    LET clamped == IF c + offset < Len(tokens_) - 1
                   THEN c + offset ELSE Len(tokens_) - 1
    IN  tokens_[clamped + 1]

Peek(c) == tokens_[c + 1]

Check(c, type) == tokens_[c + 1].type = type

IsAtEnd(c) == Peek(c).type = "End"

\* advance(), had it moved the cursor whether or not it is on End
AdvancePastEnd(c) ==
    [cur |-> c + 1, token |-> IF ~IsAtEnd(c) THEN tokens_[c + 1] ELSE Back]

\* advance(): the new cursor and the token it returns
Advance(c) ==
    IF ~IsAtEnd(c)
    THEN [cur |-> c + 1, token |-> tokens_[c + 1]]
    ELSE [cur |-> c, token |-> Back]

\* match(type)
Match(c, type) ==
    IF ~Check(c, type)
    THEN [matched |-> FALSE, cur |-> c]
    ELSE [matched |-> TRUE, cur |-> Advance(c).cur]

make_error(message, span, incomplete) ==
    [message |-> message, incomplete |-> incomplete, span |-> span,
     location |-> location_for(line_offsets_, span.start),
     source_name |-> source_name_]

\* Consume, had it never flagged its error as incomplete
ConsumeNeverIncomplete(c, type, message) ==
    IF Check(c, type)
    THEN [ok |-> TRUE, cur |-> Advance(c).cur, token |-> Advance(c).token]
    ELSE [ok |-> FALSE, cur |-> c,
          error |-> make_error(message,
                               IF IsAtEnd(c) THEN Back.span ELSE Peek(c).span,
                               FALSE)]

\* consume(type, message): the token and the new cursor, or the error thrown
Consume(c, type, message) ==
    IF Check(c, type)
    THEN [ok |-> TRUE, cur |-> Advance(c).cur, token |-> Advance(c).token]
    ELSE [ok |-> FALSE, cur |-> c,
          error |-> make_error(message,
                               IF IsAtEnd(c) THEN Back.span ELSE Peek(c).span,
                               IsAtEnd(c))]

(***************************************************************************)
(* Parser: the rule tables                                                 *)
(***************************************************************************)
\* enum class Precedence, as an int
Precedence(level) ==
    CASE level = "Lowest" -> 0
      [] level = "Assignment" -> 1
      [] level = "LogicalOr" -> 2
      [] level = "LogicalAnd" -> 3
      [] level = "BitwiseOr" -> 4
      [] level = "BitwiseAnd" -> 5
      [] level = "Sum" -> 6
      [] level = "Product" -> 7
      [] level = "Prefix" -> 8

\* the default argument of parse_expression
DefaultFloor == Precedence("Lowest")

\* find_prefix_rule: the routine the token type starts, or "none"
\* find_prefix_rule, had '+' been given the prefix rule of '-'
find_prefix_rule_unary_plus(type) ==
    CASE type = "Number" -> "parse_number"
      [] type = "String" -> "parse_string"
      [] type = "True" -> "parse_boolean"
      [] type = "False" -> "parse_boolean"
      [] type = "Minus" -> "parse_prefix_operator"
      [] type = "Plus" -> "parse_prefix_operator"
      [] type = "LeftParen" -> "parse_grouping"
      [] type = "Identifier" -> "parse_identifier"
      [] type = "Fn" -> "parse_function_literal"
      [] type = "LeftBrace" -> "parse_block"
      [] type = "If" -> "parse_if"
      [] type = "While" -> "parse_while"
      [] type = "For" -> "parse_for"
      [] OTHER -> "none"

find_prefix_rule(type) ==
    CASE type = "Number" -> "parse_number"
      [] type = "String" -> "parse_string"
      [] type = "True" -> "parse_boolean"
      [] type = "False" -> "parse_boolean"
      [] type = "Minus" -> "parse_prefix_operator"
      [] type = "LeftParen" -> "parse_grouping"
      [] type = "Identifier" -> "parse_identifier"
      [] type = "Fn" -> "parse_function_literal"
      [] type = "LeftBrace" -> "parse_block"
      [] type = "If" -> "parse_if"
      [] type = "While" -> "parse_while"
      [] type = "For" -> "parse_for"
      [] OTHER -> "none"

InfixRule(level, right_associative, parselet) ==
    [precedence |-> Precedence(level), right_associative |-> right_associative,
     parselet |-> parselet]

NoRule == [parselet |-> "none"]

\* find_infix_rule, had '|' and '&' been given each other's level
find_infix_rule_swapped(type) ==
    CASE type = "Equals" -> InfixRule("Assignment", TRUE, "parse_assignment")
      [] type = "OrOr" -> InfixRule("LogicalOr", FALSE, "parse_binary_operator")
      [] type = "AndAnd" -> InfixRule("LogicalAnd", FALSE, "parse_binary_operator")
      [] type = "Pipe" -> InfixRule("BitwiseAnd", FALSE, "parse_binary_operator")
      [] type = "Ampersand" -> InfixRule("BitwiseOr", FALSE, "parse_binary_operator")
      [] type = "Plus" -> InfixRule("Sum", FALSE, "parse_binary_operator")
      [] type = "Minus" -> InfixRule("Sum", FALSE, "parse_binary_operator")
      [] type = "Star" -> InfixRule("Product", FALSE, "parse_binary_operator")
      [] type = "Slash" -> InfixRule("Product", FALSE, "parse_binary_operator")
      [] OTHER -> NoRule

\* find_infix_rule: the rule of the token type, or NoRule
find_infix_rule(type) ==
    CASE type = "Equals" -> InfixRule("Assignment", TRUE, "parse_assignment")
      [] type = "OrOr" -> InfixRule("LogicalOr", FALSE, "parse_binary_operator")
      [] type = "AndAnd" -> InfixRule("LogicalAnd", FALSE, "parse_binary_operator")
      [] type = "Pipe" -> InfixRule("BitwiseOr", FALSE, "parse_binary_operator")
      [] type = "Ampersand" -> InfixRule("BitwiseAnd", FALSE, "parse_binary_operator")
      [] type = "Plus" -> InfixRule("Sum", FALSE, "parse_binary_operator")
      [] type = "Minus" -> InfixRule("Sum", FALSE, "parse_binary_operator")
      [] type = "Star" -> InfixRule("Product", FALSE, "parse_binary_operator")
      [] type = "Slash" -> InfixRule("Product", FALSE, "parse_binary_operator")
      [] OTHER -> NoRule

(***************************************************************************)
(* Parser: the nodes the routines build                                    *)
(***************************************************************************)
DigitValue(ch) ==
    CASE ch = "0" -> 0 [] ch = "1" -> 1 [] ch = "2" -> 2 [] ch = "3" -> 3
      [] ch = "4" -> 4 [] ch = "5" -> 5 [] ch = "6" -> 6 [] ch = "7" -> 7
      [] ch = "8" -> 8 [] ch = "9" -> 9

RECURSIVE DecimalValue(_)
DecimalValue(lexeme) ==
    IF lexeme = <<>> THEN 0
    ELSE 10 * DecimalValue(SubSeq(lexeme, 1, Len(lexeme) - 1))
         + DigitValue(lexeme[Len(lexeme)])

\* Token::as_number (std::stod): an all-digit lexeme as its value; a lexeme
\* with a fraction or an exponent is kept as its text
as_number(token) ==
    IF \A i \in 1..Len(token.lexeme) : is_digit(token.lexeme[i])
    THEN DecimalValue(token.lexeme)
    ELSE [text |-> token.lexeme]

parse_number(literal) ==
    [kind |-> "Number", value |-> as_number(literal), span |-> literal.span]

parse_boolean(literal) ==
    [kind |-> "Boolean", value |-> (literal.type = "True"), span |-> literal.span]

parse_string(literal) ==
    [kind |-> "String", value |-> literal.lexeme, span |-> literal.span]

parse_identifier(name) ==
    [kind |-> "Variable", name |-> name.lexeme, name_span |-> name.span,
     span |-> name.span]

UnitNode(span) == [kind |-> "Unit", span |-> span]

\* the four prefix routines that build a leaf from their token and return
LeafRules == {"parse_number", "parse_string", "parse_boolean", "parse_identifier"}

LeafNode(rule, token) ==
    CASE rule = "parse_number" -> parse_number(token)
      [] rule = "parse_string" -> parse_string(token)
      [] rule = "parse_boolean" -> parse_boolean(token)
      [] rule = "parse_identifier" -> parse_identifier(token)

\* make_expression_statement, had it handed the expression back unwrapped
make_expression_statement_unwrapped(expression) == expression

make_expression_statement(expression) ==
    [kind |-> "ExpressionStatement", expression |-> expression,
     span |-> IF expression # NoValue THEN expression.span ELSE SourceSpan(0, 0)]

\* struct StatementSequence
StatementSequence(statements, value) ==
    [kind |-> "StatementSequence", statements |-> statements, value |-> value]

BlockNode(statements, value, span) ==
    [kind |-> "Block", statements |-> statements, value |-> value, span |-> span]

(***************************************************************************)
(* Parser: the call stack.  A frame is a routine that has been called and  *)
(* has not returned: fn names it, pc is where it continues, and the other  *)
(* fields are its parameters and locals.  NoValue is a null pointer.       *)
(***************************************************************************)
Running(fn, pc) ==
    /\ outcome = "running"
    /\ stack # <<>>
    /\ Head(stack).fn = fn
    /\ Head(stack).pc = pc

ParserFixed ==
    UNCHANGED <<lexVars, tokens_, line_offsets_, source_name_, replVars>>

\* the routine on top returns value with the cursor at c
Return(value, c) ==
    /\ ret' = value
    /\ stack' = Tail(stack)
    /\ current_' = c
    /\ UNCHANGED <<outcome, parseError>>
    /\ ParserFixed

\* Throw, had the parser rewound its cursor when parse() fails
ThrowRewinding(error, c) ==
    /\ outcome' = "error"
    /\ parseError' = error
    /\ stack' = <<>>
    /\ ret' = NoValue
    /\ current_' = 0
    /\ ParserFixed

\* the routine on top throws: parse() ends with the error
Throw(error, c) ==
    /\ outcome' = "error"
    /\ parseError' = error
    /\ stack' = <<>>
    /\ ret' = NoValue
    /\ current_' = c
    /\ ParserFixed

\* the routine on top becomes frame and calls callee
Call(callee, frame, c) ==
    /\ stack' = <<callee, frame>> \o Tail(stack)
    /\ ret' = NoValue
    /\ current_' = c
    /\ UNCHANGED <<outcome, parseError>>
    /\ ParserFixed

\* the routine on top goes on as frame
Continue(frame, c) ==
    /\ stack' = <<frame>> \o Tail(stack)
    /\ ret' = NoValue
    /\ current_' = c
    /\ UNCHANGED <<outcome, parseError>>
    /\ ParserFixed

SequenceFrame(terminator) ==
    [fn |-> "parse_sequence", pc |-> "loop", terminator |-> terminator,
     statements |-> <<>>, value |-> NoValue]

ExpressionFrame(precedence_floor) ==
    [fn |-> "parse_expression", pc |-> "start",
     precedence_floor |-> precedence_floor, left |-> NoValue]

LetStatementFrame ==
    [fn |-> "parse_let_statement", pc |-> "start", let_token |-> NoValue,
     name |-> NoValue]

FnStatementFrame ==
    [fn |-> "parse_fn_statement", pc |-> "start", fn_token |-> NoValue,
     name |-> NoValue]

FunctionLiteralFrame(fn_token) ==
    [fn |-> "parse_function_literal", pc |-> "start", fn_token |-> fn_token,
     parameters |-> <<>>]

\* the frame of a prefix routine that parses sub-expressions
PrefixFrame(rule, token) ==
    CASE rule = "parse_prefix_operator" ->
            [fn |-> rule, pc |-> "start", op |-> token]
      [] rule = "parse_grouping" ->
            [fn |-> rule, pc |-> "start", open |-> token]
      [] rule = "parse_block" ->
            [fn |-> rule, pc |-> "start", open |-> token]
      [] rule = "parse_function_literal" -> FunctionLiteralFrame(token)
      [] rule = "parse_if" ->
            [fn |-> rule, pc |-> "start", if_token |-> token,
             condition |-> NoValue, then_branch |-> NoValue]
      [] rule = "parse_while" ->
            [fn |-> rule, pc |-> "start", while_token |-> token,
             condition |-> NoValue]
      [] rule = "parse_for" ->
            [fn |-> rule, pc |-> "start", for_token |-> token,
             pattern |-> NoValue, iterable |-> NoValue]

\* the frame of an infix parselet
InfixFrame(rule, left, op) ==
    IF rule.parselet = "parse_assignment"
    THEN [fn |-> "parse_assignment", pc |-> "start", left |-> left, op |-> op,
          precedence |-> rule.precedence]
    ELSE [fn |-> "parse_binary_operator", pc |-> "start", left |-> left,
          op |-> op, operator_precedence |-> rule.precedence,
          right_associative |-> rule.right_associative]

(***************************************************************************)
(* Parser::parse                                                           *)
(***************************************************************************)
\* parse() is called: it calls parse_sequence(TokenType::End)
parse ==
    /\ outcome = "idle"
    /\ outcome' = "running"
    /\ stack' = <<SequenceFrame("End"), [fn |-> "parse", pc |-> "after_sequence"]>>
    /\ UNCHANGED <<ret, current_, parseError>>
    /\ ParserFixed

\* ProgramNode, had parse() wrapped every sequence in a Block
ProgramNodeAlwaysBlock(sequence) ==
    BlockNode(sequence.statements, sequence.value, Back.span)

\* what parse() returns for the sequence parse_sequence gave it
ProgramNode(sequence) ==
    IF sequence.statements = <<>>
    THEN IF sequence.value = NoValue THEN UnitNode(Back.span) ELSE sequence.value
    ELSE BlockNode(sequence.statements, sequence.value,
                   SourceSpan(sequence.statements[1].span.start,
                              IF sequence.value # NoValue
                              THEN sequence.value.span.end
                              ELSE sequence.statements[Len(sequence.statements)].span.end))

\* parse_finish, had parse() returned the sequence without looking for End
parse_finish_trailing ==
    /\ Running("parse", "after_sequence")
    /\ outcome' = "ok"
    /\ ret' = ProgramNode(ret)
    /\ stack' = <<>>
    /\ current_' = current_
    /\ UNCHANGED parseError
    /\ ParserFixed

\* parse(), after parse_sequence returned
parse_finish ==
    /\ Running("parse", "after_sequence")
    /\ LET end == Consume(current_, "End", <<"Expected end of input">>) IN
       IF ~end.ok
       THEN Throw(end.error, end.cur)
       ELSE /\ outcome' = "ok"
            /\ ret' = ProgramNode(ret)
            /\ stack' = <<>>
            /\ current_' = end.cur
            /\ UNCHANGED parseError
            /\ ParserFixed

(***************************************************************************)
(* Parser::parse_sequence                                                  *)
(***************************************************************************)
SequenceLoops ==
    /\ Running("parse_sequence", "loop")
    /\ ~Check(current_, Head(stack).terminator)
    /\ ~IsAtEnd(current_)

\* the loop condition fails: return sequence
parse_sequence_return ==
    /\ Running("parse_sequence", "loop")
    /\ Check(current_, Head(stack).terminator) \/ IsAtEnd(current_)
    /\ Return(StatementSequence(Head(stack).statements, Head(stack).value),
              current_)

\* parse_sequence_semicolon, had the ';' been left where it is
parse_sequence_semicolon_unconsumed ==
    /\ SequenceLoops
    /\ Check(current_, "Semicolon")
    /\ Continue(Head(stack), current_)

\* a stray ';' is skipped
parse_sequence_semicolon ==
    /\ SequenceLoops
    /\ Check(current_, "Semicolon")
    /\ Continue(Head(stack), Advance(current_).cur)

parse_sequence_let ==
    /\ SequenceLoops
    /\ ~Check(current_, "Semicolon")
    /\ Check(current_, "Let")
    /\ Call(LetStatementFrame, [Head(stack) EXCEPT !.pc = "after_let"], current_)

\* IsFnStatement, had every `fn` at statement position been a declaration
IsFnStatementAnyFn(c) == Check(c, "Fn")

IsFnStatement(c) == Check(c, "Fn") /\ PeekAt(c, 1).type = "Identifier"

parse_sequence_fn ==
    /\ SequenceLoops
    /\ ~Check(current_, "Semicolon")
    /\ ~Check(current_, "Let")
    /\ IsFnStatement(current_)
    /\ Call(FnStatementFrame, [Head(stack) EXCEPT !.pc = "after_fn"], current_)

parse_sequence_expression ==
    /\ SequenceLoops
    /\ ~Check(current_, "Semicolon")
    /\ ~Check(current_, "Let")
    /\ ~IsFnStatement(current_)
    /\ Call(ExpressionFrame(DefaultFloor),
            [Head(stack) EXCEPT !.pc = "after_expression"], current_)

\* parse_let_statement returned: the ';' it needs
parse_sequence_after_let ==
    /\ Running("parse_sequence", "after_let")
    /\ LET semicolon == Consume(current_, "Semicolon",
                                <<"Expected ';' after let statement">>) IN
       IF ~semicolon.ok
       THEN Throw(semicolon.error, semicolon.cur)
       ELSE Continue([Head(stack) EXCEPT !.pc = "loop",
                                         !.statements = Append(@, ret)],
                     semicolon.cur)

\* parse_fn_statement returned: the ';' it refuses
parse_sequence_after_fn ==
    /\ Running("parse_sequence", "after_fn")
    /\ IF Check(current_, "Semicolon")
       THEN Throw(make_error(<<"Unexpected ';' after function definition">>,
                             Peek(current_).span, FALSE), current_)
       ELSE Continue([Head(stack) EXCEPT !.pc = "loop",
                                         !.statements = Append(@, ret)],
                     current_)

\* parse_sequence_after_expression, had it pushed the expression as a
\* statement whether or not a ';' follows
parse_sequence_after_expression_unterminated ==
    /\ Running("parse_sequence", "after_expression")
    /\ Continue([Head(stack) EXCEPT
                    !.pc = "loop",
                    !.statements = Append(@, make_expression_statement(ret))],
                Match(current_, "Semicolon").cur)

\* parse_expression returned: a statement if ';' follows, else the value
parse_sequence_after_expression ==
    /\ Running("parse_sequence", "after_expression")
    /\ LET frame == Head(stack)
           semicolon == Match(current_, "Semicolon")
       IN  IF semicolon.matched
           THEN Continue([frame EXCEPT
                             !.pc = "loop",
                             !.statements = Append(@, make_expression_statement(ret))],
                         semicolon.cur)
           ELSE IF frame.value # NoValue
           THEN Throw(make_error(<<"Unexpected expression after final expression">>,
                                 ret.span, FALSE), current_)
           ELSE Return(StatementSequence(frame.statements, ret), current_)

(***************************************************************************)
(* Parser::parse_let_statement and Parser::parse_fn_statement              *)
(***************************************************************************)
LetStatementNode(name, value, start) ==
    [kind |-> "Let", name |-> name.lexeme, name_span |-> name.span,
     value |-> value, span |-> SourceSpan(start, value.span.end)]

parse_let_statement ==
    /\ Running("parse_let_statement", "start")
    /\ LET let_token == Consume(current_, "Let", <<"Expected 'let'">>)
           name == Consume(let_token.cur, "Identifier",
                           <<"Expected identifier after 'let'">>)
           equals == Consume(name.cur, "Equals", <<"Expected '=' after identifier">>)
       IN  IF ~let_token.ok THEN Throw(let_token.error, let_token.cur)
           ELSE IF ~name.ok THEN Throw(name.error, name.cur)
           ELSE IF ~equals.ok THEN Throw(equals.error, equals.cur)
           ELSE Call(ExpressionFrame(DefaultFloor),
                     [Head(stack) EXCEPT !.pc = "after_initializer",
                                         !.let_token = let_token.token,
                                         !.name = name.token],
                     equals.cur)

parse_let_statement_finish ==
    /\ Running("parse_let_statement", "after_initializer")
    /\ Return(LetStatementNode(Head(stack).name, ret,
                               Head(stack).let_token.span.start), current_)

parse_fn_statement ==
    /\ Running("parse_fn_statement", "start")
    /\ LET fn_token == Consume(current_, "Fn", <<"Expected 'fn'">>)
           name == Consume(fn_token.cur, "Identifier",
                           <<"Expected function name after 'fn'">>)
       IN  IF ~fn_token.ok THEN Throw(fn_token.error, fn_token.cur)
           ELSE IF ~name.ok THEN Throw(name.error, name.cur)
           ELSE Call(FunctionLiteralFrame(fn_token.token),
                     [Head(stack) EXCEPT !.pc = "after_function",
                                         !.fn_token = fn_token.token,
                                         !.name = name.token],
                     name.cur)

parse_fn_statement_finish ==
    /\ Running("parse_fn_statement", "after_function")
    /\ Return(LetStatementNode(Head(stack).name, ret,
                               Head(stack).fn_token.span.start), current_)

(***************************************************************************)
(* Parser::parse_expression                                                *)
(***************************************************************************)
\* called at the End token
parse_expression_at_end ==
    /\ Running("parse_expression", "start")
    /\ IsAtEnd(current_)
    /\ Throw(make_error(<<"Unexpected end of input while parsing expression">>,
                        Peek(current_).span, TRUE), current_)

\* the token advance() returned has no prefix rule
parse_expression_no_prefix ==
    /\ Running("parse_expression", "start")
    /\ ~IsAtEnd(current_)
    /\ LET token == Advance(current_).token IN
       /\ find_prefix_rule(token.type) = "none"
       /\ Throw(IF token.type = "Let"
                THEN make_error(<<"Unexpected 'let' while parsing expression">>,
                                token.span, FALSE)
                ELSE IF token.type = "End"
                THEN make_error(<<"Unexpected end of input while parsing expression">>,
                                token.span, TRUE)
                ELSE make_error(<<"Unexpected token '">> \o token.lexeme
                                   \o <<"' while parsing expression">>,
                                token.span, FALSE),
                Advance(current_).cur)

\* the prefix rule builds a leaf from the token
parse_expression_leaf ==
    /\ Running("parse_expression", "start")
    /\ ~IsAtEnd(current_)
    /\ LET token == Advance(current_).token
           rule == find_prefix_rule(token.type)
       IN  /\ rule \in LeafRules
           /\ Continue([Head(stack) EXCEPT !.pc = "loop",
                                           !.left = LeafNode(rule, token)],
                       Advance(current_).cur)

\* the prefix rule is a routine that parses sub-expressions
parse_expression_prefix ==
    /\ Running("parse_expression", "start")
    /\ ~IsAtEnd(current_)
    /\ LET token == Advance(current_).token
           rule == find_prefix_rule(token.type)
       IN  /\ rule \notin LeafRules \cup {"none"}
           /\ Call(PrefixFrame(rule, token),
                   [Head(stack) EXCEPT !.pc = "resume"],
                   Advance(current_).cur)

\* at the head of the infix loop
InfixLoop ==
    /\ outcome = "running"
    /\ stack # <<>>
    /\ Head(stack).fn = "parse_expression"
    /\ Head(stack).pc \in {"loop", "resume"}

\* left: the leaf, or what the prefix routine or the infix parselet returned
Left == IF Head(stack).pc = "resume" THEN ret ELSE Head(stack).left

InfixContinues(c, precedence_floor) ==
    /\ ~IsAtEnd(c)
    /\ find_infix_rule(Peek(c).type) # NoRule
    /\ ~(find_infix_rule(Peek(c).type).precedence < precedence_floor)

\* the loop ends: return left
parse_expression_return ==
    /\ InfixLoop
    /\ ~InfixContinues(current_, Head(stack).precedence_floor)
    /\ Return(Left, current_)

\* the next token is an infix operator at or above the floor
parse_expression_infix ==
    /\ InfixLoop
    /\ InfixContinues(current_, Head(stack).precedence_floor)
    /\ LET infix_rule == find_infix_rule(Peek(current_).type)
           op == Advance(current_)
       IN  Call(InfixFrame(infix_rule, Left, op.token),
                [Head(stack) EXCEPT !.pc = "resume", !.left = NoValue],
                op.cur)

(***************************************************************************)
(* The infix parselets                                                     *)
(***************************************************************************)
\* NextPrecedence, had the right operand been parsed at the operator's own
\* precedence whatever its associativity
NextPrecedenceSameFloor(operator_precedence, right_associative) ==
    operator_precedence

\* the precedence floor parse_binary_operator parses its right operand at
NextPrecedence(operator_precedence, right_associative) ==
    operator_precedence + (IF right_associative THEN 0 ELSE 1)

parse_binary_operator ==
    /\ Running("parse_binary_operator", "start")
    /\ Call(ExpressionFrame(NextPrecedence(Head(stack).operator_precedence,
                                           Head(stack).right_associative)),
            [Head(stack) EXCEPT !.pc = "after_right"], current_)

parse_binary_operator_finish ==
    /\ Running("parse_binary_operator", "after_right")
    /\ LET frame == Head(stack) IN
       Return([kind |-> "Infix", op |-> frame.op.type, op_span |-> frame.op.span,
               left |-> frame.left, right |-> ret,
               span |-> SourceSpan(frame.left.span.start, ret.span.end)],
              current_)

\* IsVariable, had a parenthesised expression been accepted as well
IsVariableOrGrouping(node) == node.kind \in {"Variable", "Grouping"}

\* std::get_if<Expression::Variable>(&left->node)
IsVariable(node) == node.kind = "Variable"

parse_assignment ==
    /\ Running("parse_assignment", "start")
    /\ IF ~IsVariable(Head(stack).left)
       THEN Throw(make_error(<<"Left-hand side of assignment must be a variable">>,
                             Head(stack).op.span, FALSE), current_)
       ELSE Call(ExpressionFrame(Head(stack).precedence),
                 [Head(stack) EXCEPT !.pc = "after_right"], current_)

parse_assignment_finish ==
    /\ Running("parse_assignment", "after_right")
    /\ LET var == Head(stack).left IN
       Return([kind |-> "Assign", name |-> var.name, name_span |-> var.name_span,
               value |-> ret,
               span |-> SourceSpan(var.span.start, ret.span.end)],
              current_)

(***************************************************************************)
(* The prefix routines                                                     *)
(***************************************************************************)
parse_grouping ==
    /\ Running("parse_grouping", "start")
    /\ IF Check(current_, "RightParen")
       THEN LET close == Advance(current_) IN
            Return(UnitNode(SourceSpan(Head(stack).open.span.start,
                                       close.token.span.end)), close.cur)
       ELSE Call(ExpressionFrame(DefaultFloor),
                 [Head(stack) EXCEPT !.pc = "after_expression"], current_)

\* parse_grouping_finish, had the expression been returned without its
\* Grouping node
parse_grouping_finish_unwrapped ==
    /\ Running("parse_grouping", "after_expression")
    /\ LET close == Consume(current_, "RightParen", <<"Expected ')' after expression">>) IN
       IF ~close.ok
       THEN Throw(close.error, close.cur)
       ELSE Return(ret, close.cur)

parse_grouping_finish ==
    /\ Running("parse_grouping", "after_expression")
    /\ LET close == Consume(current_, "RightParen", <<"Expected ')' after expression">>) IN
       IF ~close.ok
       THEN Throw(close.error, close.cur)
       ELSE Return([kind |-> "Grouping", expression |-> ret,
                    span |-> SourceSpan(Head(stack).open.span.start,
                                        close.token.span.end)],
                   close.cur)

parse_prefix_operator ==
    /\ Running("parse_prefix_operator", "start")
    /\ Call(ExpressionFrame(Precedence("Prefix")),
            [Head(stack) EXCEPT !.pc = "after_right"], current_)

parse_prefix_operator_finish ==
    /\ Running("parse_prefix_operator", "after_right")
    /\ LET op == Head(stack).op IN
       Return([kind |-> "Prefix", op |-> op.type, op_span |-> op.span,
               right |-> ret,
               span |-> SourceSpan(op.span.start, ret.span.end)],
              current_)

parse_block ==
    /\ Running("parse_block", "start")
    /\ Call(SequenceFrame("RightBrace"),
            [Head(stack) EXCEPT !.pc = "after_sequence"], current_)

parse_block_finish ==
    /\ Running("parse_block", "after_sequence")
    /\ LET close == Consume(current_, "RightBrace", <<"Expected '}' after block">>) IN
       IF ~close.ok
       THEN Throw(close.error, close.cur)
       ELSE Return(BlockNode(ret.statements, ret.value,
                             SourceSpan(Head(stack).open.span.start,
                                        close.token.span.end)),
                   close.cur)

\* IfNode, had the span stopped at the then branch
IfNodeThenEnd(if_token, condition, then_branch, else_branch) ==
    [kind |-> "If", condition |-> condition, then |-> then_branch,
     else_branch |-> else_branch,
     span |-> SourceSpan(if_token.span.start, then_branch.span.end)]

IfNode(if_token, condition, then_branch, else_branch) ==
    [kind |-> "If", condition |-> condition, then |-> then_branch,
     else_branch |-> else_branch,
     span |-> SourceSpan(if_token.span.start,
                         IF else_branch # NoValue
                         THEN else_branch.span.end
                         ELSE then_branch.span.end)]

parse_if ==
    /\ Running("parse_if", "start")
    /\ Call(ExpressionFrame(DefaultFloor),
            [Head(stack) EXCEPT !.pc = "after_condition"], current_)

parse_if_then ==
    /\ Running("parse_if", "after_condition")
    /\ Call(ExpressionFrame(DefaultFloor),
            [Head(stack) EXCEPT !.pc = "after_then", !.condition = ret],
            current_)

\* the then branch is parsed: an else branch follows, or the node is built
parse_if_else ==
    /\ Running("parse_if", "after_then")
    /\ LET else_token == Match(current_, "Else") IN
       IF else_token.matched
       THEN Call(ExpressionFrame(DefaultFloor),
                 [Head(stack) EXCEPT !.pc = "after_else", !.then_branch = ret],
                 else_token.cur)
       ELSE Return(IfNode(Head(stack).if_token, Head(stack).condition, ret,
                          NoValue), current_)

parse_if_finish ==
    /\ Running("parse_if", "after_else")
    /\ Return(IfNode(Head(stack).if_token, Head(stack).condition,
                     Head(stack).then_branch, ret), current_)

\* Parameters, had a ')' been accepted after a comma
RECURSIVE ParametersTrailingComma(_, _)
ParametersTrailingComma(c, parameters) ==
    LET parameter == Consume(c, "Identifier", <<"Expected parameter name">>) IN
    IF ~parameter.ok
    THEN IF Check(c, "RightParen") /\ parameters # <<>>
         THEN [ok |-> TRUE, cur |-> c, parameters |-> parameters]
         ELSE parameter
    ELSE LET pushed == Append(parameters,
                              [name |-> parameter.token.lexeme,
                               span |-> parameter.token.span])
             comma == Match(parameter.cur, "Comma")
         IN  IF comma.matched
             THEN ParametersTrailingComma(comma.cur, pushed)
             ELSE [ok |-> TRUE, cur |-> comma.cur, parameters |-> pushed]

\* the parameter loop of parse_function_literal, from cursor c
RECURSIVE Parameters(_, _)
Parameters(c, parameters) ==
    LET parameter == Consume(c, "Identifier", <<"Expected parameter name">>) IN
    IF ~parameter.ok
    THEN parameter
    ELSE LET pushed == Append(parameters,
                              [name |-> parameter.token.lexeme,
                               span |-> parameter.token.span])
             comma == Match(parameter.cur, "Comma")
         IN  IF comma.matched
             THEN Parameters(comma.cur, pushed)
             ELSE [ok |-> TRUE, cur |-> comma.cur, parameters |-> pushed]

parse_function_literal ==
    /\ Running("parse_function_literal", "start")
    /\ LET open == Consume(current_, "LeftParen", <<"Expected '(' after 'fn'">>)
           list == IF ~Check(open.cur, "RightParen")
                   THEN Parameters(open.cur, <<>>)
                   ELSE [ok |-> TRUE, cur |-> open.cur, parameters |-> <<>>]
           close == Consume(list.cur, "RightParen",
                            <<"Expected ')' after parameter list">>)
       IN  IF ~open.ok THEN Throw(open.error, open.cur)
           ELSE IF ~list.ok THEN Throw(list.error, list.cur)
           ELSE IF ~close.ok THEN Throw(close.error, close.cur)
           ELSE Call(ExpressionFrame(DefaultFloor),
                     [Head(stack) EXCEPT !.pc = "after_body",
                                         !.parameters = list.parameters],
                     close.cur)

parse_function_literal_finish ==
    /\ Running("parse_function_literal", "after_body")
    /\ Return([kind |-> "Function", parameters |-> Head(stack).parameters,
               body |-> ret,
               span |-> SourceSpan(Head(stack).fn_token.span.start, ret.span.end)],
              current_)

parse_while ==
    /\ Running("parse_while", "start")
    /\ Call(ExpressionFrame(DefaultFloor),
            [Head(stack) EXCEPT !.pc = "after_condition"], current_)

parse_while_body ==
    /\ Running("parse_while", "after_condition")
    /\ Call(ExpressionFrame(DefaultFloor),
            [Head(stack) EXCEPT !.pc = "after_body", !.condition = ret],
            current_)

parse_while_finish ==
    /\ Running("parse_while", "after_body")
    /\ Return([kind |-> "While", condition |-> Head(stack).condition,
               body |-> ret,
               span |-> SourceSpan(Head(stack).while_token.span.start,
                                   ret.span.end)],
              current_)

parse_for ==
    /\ Running("parse_for", "start")
    /\ LET identifier == Consume(current_, "Identifier",
                                 <<"Expected identifier after 'for'">>)
           in_token == Consume(identifier.cur, "In",
                               <<"Expected 'in' after loop variable">>)
       IN  IF ~identifier.ok THEN Throw(identifier.error, identifier.cur)
           ELSE IF ~in_token.ok THEN Throw(in_token.error, in_token.cur)
           ELSE Call(ExpressionFrame(DefaultFloor),
                     [Head(stack) EXCEPT !.pc = "after_iterable",
                                         !.pattern = parse_identifier(identifier.token)],
                     in_token.cur)

parse_for_body ==
    /\ Running("parse_for", "after_iterable")
    /\ Call(ExpressionFrame(DefaultFloor),
            [Head(stack) EXCEPT !.pc = "after_body", !.iterable = ret],
            current_)

parse_for_finish ==
    /\ Running("parse_for", "after_body")
    /\ Return([kind |-> "For", pattern |-> Head(stack).pattern,
               iterable |-> Head(stack).iterable, body |-> ret,
               span |-> SourceSpan(Head(stack).for_token.span.start,
                                   ret.span.end)],
              current_)

ParseNext ==
    \/ parse
    \/ parse_finish
    \/ parse_sequence_return
    \/ parse_sequence_semicolon
    \/ parse_sequence_let
    \/ parse_sequence_fn
    \/ parse_sequence_expression
    \/ parse_sequence_after_let
    \/ parse_sequence_after_fn
    \/ parse_sequence_after_expression
    \/ parse_let_statement
    \/ parse_let_statement_finish
    \/ parse_fn_statement
    \/ parse_fn_statement_finish
    \/ parse_expression_at_end
    \/ parse_expression_no_prefix
    \/ parse_expression_leaf
    \/ parse_expression_prefix
    \/ parse_expression_return
    \/ parse_expression_infix
    \/ parse_binary_operator
    \/ parse_binary_operator_finish
    \/ parse_assignment
    \/ parse_assignment_finish
    \/ parse_grouping
    \/ parse_grouping_finish
    \/ parse_prefix_operator
    \/ parse_prefix_operator_finish
    \/ parse_block
    \/ parse_block_finish
    \/ parse_if
    \/ parse_if_then
    \/ parse_if_else
    \/ parse_if_finish
    \/ parse_function_literal
    \/ parse_function_literal_finish
    \/ parse_while
    \/ parse_while_body
    \/ parse_while_finish
    \/ parse_for
    \/ parse_for_body
    \/ parse_for_finish

(***************************************************************************)
(* The parser specification: print_ast's pipeline.  A source is tokenized, *)
(* the parser is constructed from the result, and parse() runs step by     *)
(* step.  Sources are words joined by single spaces.                       *)
(***************************************************************************)
RECURSIVE JoinWords(_)
JoinWords(words) ==
    IF words = <<>> THEN <<>>
    ELSE IF Len(words) = 1 THEN words[1]
    ELSE words[1] \o <<" ">> \o JoinWords(Tail(words))

WordSeqs(words, maxLen) == UNION {[1..n -> words] : n \in 0..maxLen}

\* one word of every token type but End
AllWords ==
    {<<"1">>, <<"\"", "s", "\"">>, <<"a">>, <<"l", "e", "t">>, <<"f", "n">>,
     <<"i", "f">>, <<"e", "l", "s", "e">>, <<"f", "o", "r">>,
     <<"w", "h", "i", "l", "e">>, <<"t", "r", "u", "e">>,
     <<"f", "a", "l", "s", "e">>, <<"+">>, <<"-">>, <<"*">>, <<"/">>, <<"&">>,
     <<"|">>, <<"&", "&">>, <<"|", "|">>, <<"(">>, <<")">>, <<",">>, <<":">>,
     <<"{">>, <<"}">>, <<";">>, <<"-", ">">>, <<"=">>, <<"i", "n">>}

\* the words of statement sequences, blocks, groupings and assignment
StatementWords ==
    {<<"1">>, <<"a">>, <<";">>, <<"{">>, <<"}">>, <<"=">>, <<"(">>, <<")">>,
     <<"l", "e", "t">>, <<"+">>}

\* the infix operators, and the two operands of operator chains
OperatorWords ==
    {<<"=">>, <<"|", "|">>, <<"&", "&">>, <<"|">>, <<"&">>, <<"+">>, <<"-">>,
     <<"*">>, <<"/">>}

OperandWords == {<<"a">>, <<"1">>}

\* operand (operator operand)^n
RECURSIVE Chains(_)
Chains(n) ==
    IF n = 0 THEN {<<operand>> : operand \in OperandWords}
    ELSE {chain \o <<operator, <<"a">>>> :
             chain \in Chains(n - 1), operator \in OperatorWords}

\* fn(name) -> string name
UnannotatedParameter ==
    <<<<"f", "n", "(", "n", "a", "m", "e", ")">>, <<"-", ">">>,
      <<"s", "t", "r", "i", "n", "g">>, <<"n", "a", "m", "e">>>>

\* programs that use every construct of the grammar
SamplePrograms ==
    {
     <<<<"l", "e", "t">>, <<"a">>, <<"=">>, <<"t", "r", "u", "e">>, <<"&", "&">>, <<"f", "a", "l", "s", "e">>, <<"|", "|">>, <<"t", "r", "u", "e">>, <<";">>, <<"a">>>>,
     <<<<"{">>, <<"l", "e", "t">>, <<"a">>, <<"=">>, <<"\"", "s", "\"">>, <<";">>, <<"f", "n">>, <<"(">>, <<"a">>, <<")">>, <<"{">>, <<"a">>, <<"}">>, <<"}">>>>,
     <<<<"i", "f">>, <<"t", "r", "u", "e">>, <<"{">>, <<"1">>, <<"}">>, <<"e", "l", "s", "e">>, <<"{">>, <<"1">>, <<"}">>>>,
     <<<<"f", "n">>, <<"a">>, <<"(">>, <<"a">>, <<",">>, <<"a">>, <<")">>, <<"{">>, <<"a">>, <<"=">>, <<"a">>, <<";">>, <<"}">>>>,
     <<<<"f", "o", "r">>, <<"a">>, <<"i", "n">>, <<"a">>, <<"{">>, <<"a">>, <<";">>, <<"}">>>>,
     <<<<"w", "h", "i", "l", "e">>, <<"a">>, <<"{">>, <<"-">>, <<"a">>, <<"/">>, <<"1">>, <<";">>, <<"a">>, <<"|">>, <<"a">>, <<"&">>, <<"a">>, <<"}">>>>,
     <<<<"(">>, <<")">>, <<";">>, <<"(">>, <<"a">>, <<")">>, <<"*">>, <<"1">>, <<";">>, <<"i", "f">>, <<"a">>, <<"a">>>>,
     <<<<"f", "n">>, <<"a">>, <<"(">>, <<")">>, <<"1">>, <<";">>>>,
     <<<<"f", "n">>, <<"(">>, <<"a">>>>,
     <<<<"(">>, <<"a">>, <<")">>, <<"=">>, <<"1">>>>,
     <<<<"-">>, <<"a">>, <<"=">>, <<"1">>>>,
     <<<<"{">>, <<"f", "n">>, <<"a">>, <<"(">>, <<")">>, <<"{">>, <<"}">>, <<"a">>, <<";">>, <<"a">>, <<"}">>>>,
     UnannotatedParameter,
     <<<<"f", "n">>, <<"(">>, <<"a">>, <<",">>, <<"b">>, <<")">>, <<"a">>, <<"+">>, <<"b">>>>,
     <<<<"f", "n">>, <<"(">>, <<"a">>, <<",">>, <<")">>, <<"a">>>>,
     <<<<"f", "n">>, <<"(">>, <<"a">>, <<",">>, <<",">>, <<"b">>, <<")">>, <<"a">>>>,
     <<<<"f", "n">>, <<"(">>, <<"1">>, <<")">>, <<"a">>>>,
     <<<<"f", "n">>, <<"(">>, <<"a">>, <<"b">>, <<")">>, <<"a">>>>,
     <<<<"f", "n">>, <<"(">>, <<"a">>, <<",">>>>}

MaxWords == 2

MaxStatementWords == 4

MaxOperators == 3

ParsePrograms ==
    SamplePrograms
    \cup WordSeqs(AllWords, MaxWords)
    \cup WordSeqs(StatementWords, MaxStatementWords)
    \cup UNION {Chains(n) : n \in 0..MaxOperators}

SourceName == "<test>"

\* Parser::Parser: an empty line table becomes {0}
ParserLineOffsets(offsets) == IF offsets = <<>> THEN <<0>> ELSE offsets

\* print_ast up to the call of parse(): tokenize(src) returned and the
\* parser is constructed from its result
ParseStart(src) ==
    /\ source = src
    /\ LET result == tokenize(src) IN
       /\ result.state = "ok"
       /\ index = result.index
       /\ tokens = result.tokens
       /\ line_offsets = result.line_offsets
       /\ lexState = result.state
       /\ lexError = result.error
       /\ tokens_ = result.tokens
       /\ line_offsets_ = ParserLineOffsets(result.line_offsets)
    /\ current_ = 0
    /\ stack = <<>>
    /\ ret = NoValue
    /\ outcome = "idle"
    /\ parseError = NoError
    /\ source_name_ = SourceName
    /\ ReplStart

ParseInit == \E program \in ParsePrograms : ParseStart(JoinWords(program))

SpecParse == ParseInit /\ [][ParseNext]_vars

(***************************************************************************)
(* repl(): the interactive loop.  A line is read, appended to the buffer,  *)
(* and print_ast tokenizes and parses the whole buffer; how print_ast ends *)
(* decides whether the buffer is kept for more input.                      *)
(***************************************************************************)
\* "<repl #" + std::to_string(snippet_index) + ">"
ReplSourceName(n) == <<"<repl #", ToString(n), ">">>

\* line == "quit" || line == "exit"
IsQuit(line) == line \in {<<"q", "u", "i", "t">>, <<"e", "x", "i", "t">>}

\* line.find_first_not_of(" \t") == std::string::npos
IsBlank(line) == \A i \in 1..Len(line) : line[i] \in {" ", "\t"}

\* what() of the std::runtime_error tokenize's make_error builds
LexWhat(error) ==
    error.message
    \o <<" at line ", ToString(error.line), ", column ", ToString(error.column)>>

\* the line report_parse_error writes
report_parse_error(error) ==
    error.source_name
    \o <<":", ToString(error.location.line), ":",
         ToString(error.location.column), ": error: ">>
    \o error.message

\* a snippet that uses every construct of the grammar
ReplProgram ==
    <<<<"l", "e", "t">>, <<"a">>, <<"=">>, <<"(">>, <<"1">>, <<")">>, <<";">>,
      <<"f", "n">>, <<"a">>, <<"(">>, <<"a">>, <<")">>, <<"{">>, <<"a">>, <<"=">>,
      <<"-">>, <<"a">>, <<";">>, <<"}">>,
      <<"f", "o", "r">>, <<"a">>, <<"i", "n">>, <<"a">>, <<"{">>, <<"}">>, <<";">>,
      <<"w", "h", "i", "l", "e">>, <<"a">>, <<"{">>, <<"}">>, <<";">>,
      <<"i", "f">>, <<"a">>, <<"{">>, <<"}">>, <<"e", "l", "s", "e">>, <<"{">>,
      <<"1">>, <<"+">>, <<"1">>, <<"}">>>>

\* the lines the user types: the snippet, and lines that are blank,
\* incomplete, complete, wrong or unlexable on their own or after another
ReplLines ==
    {JoinWords(ReplProgram), <<>>, <<" ", "\t">>, <<"q", "u", "i", "t">>,
     <<"e", "x", "i", "t">>, <<"1", " ", "+">>, <<"1">>, <<"{">>, <<"}">>,
     <<")">>, <<"\"">>, <<";">>}

\* the session is cut off after MaxSnippets snippets, and a snippet after
\* MaxBufferLines lines
MaxSnippets == 2

MaxBufferLines == 2

BufferLines(text) == 1 + Cardinality({i \in 1..Len(text) : text[i] = "\n"})

\* no tokenize result and no parser exist outside print_ast
NoParser ==
    /\ tokens_' = <<>>
    /\ line_offsets_' = <<>>
    /\ current_' = 0
    /\ stack' = <<>>
    /\ ret' = NoValue
    /\ outcome' = "none"
    /\ parseError' = NoError
    /\ source_name_' = <<>>

PrintAstLeft ==
    /\ source' = <<>>
    /\ index' = LexStart.index
    /\ tokens' = LexStart.tokens
    /\ line_offsets' = LexStart.line_offsets
    /\ lexState' = LexStart.state
    /\ lexError' = LexStart.error
    /\ NoParser

\* console.input returns nullptr
ReplEndOfInput ==
    /\ replAt = "input"
    /\ raw_input' = NullInput
    /\ replAt' = "done"
    /\ UNCHANGED <<lexVars, parserVars, prompt, buffer, snippet_index,
                   current_source_name, cerr>>

\* ReplQuit, had quit and exit been looked for whatever the buffer holds
ReplQuitAnyBuffer ==
    /\ replAt = "input"
    /\ \E line \in ReplLines : IsQuit(line) /\ raw_input' = InputLine(line)
    /\ current_source_name' = ReplSourceName(snippet_index)
    /\ replAt' = "done"
    /\ UNCHANGED <<lexVars, parserVars, prompt, buffer, snippet_index, cerr>>

\* quit or exit with an empty buffer
ReplQuit ==
    /\ replAt = "input"
    /\ buffer = <<>>
    /\ \E line \in ReplLines : IsQuit(line) /\ raw_input' = InputLine(line)
    /\ current_source_name' = ReplSourceName(snippet_index)
    /\ replAt' = "done"
    /\ UNCHANGED <<lexVars, parserVars, prompt, buffer, snippet_index, cerr>>

\* a blank line with an empty buffer
ReplBlank ==
    /\ replAt = "input"
    /\ buffer = <<>>
    /\ \E line \in ReplLines :
          ~IsQuit(line) /\ IsBlank(line) /\ raw_input' = InputLine(line)
    /\ current_source_name' = ReplSourceName(snippet_index)
    /\ UNCHANGED <<lexVars, parserVars, replAt, prompt, buffer, snippet_index,
                   cerr>>

\* any other line: appended to the buffer, and print_ast up to the call of
\* parse() or to tokenize's throw
ReplLine ==
    /\ replAt = "input"
    /\ snippet_index <= MaxSnippets
    /\ \E line \in ReplLines :
          /\ buffer = <<>> => ~IsQuit(line) /\ ~IsBlank(line)
          /\ buffer # <<>> => BufferLines(buffer) < MaxBufferLines
          /\ LET name == IF buffer = <<>>
                         THEN ReplSourceName(snippet_index)
                         ELSE current_source_name
                 text == IF buffer = <<>> THEN line
                         ELSE buffer \o <<"\n">> \o line
                 result == tokenize(text)
             IN  /\ raw_input' = InputLine(line)
                 /\ current_source_name' = name
                 /\ buffer' = text
                 /\ source' = text
                 /\ index' = result.index
                 /\ tokens' = result.tokens
                 /\ line_offsets' = result.line_offsets
                 /\ lexState' = result.state
                 /\ lexError' = result.error
                 /\ IF result.state = "ok"
                    THEN /\ tokens_' = result.tokens
                         /\ line_offsets_' = ParserLineOffsets(result.line_offsets)
                         /\ source_name_' = name
                         /\ current_' = 0
                         /\ stack' = <<>>
                         /\ ret' = NoValue
                         /\ outcome' = "idle"
                         /\ parseError' = NoError
                    ELSE NoParser
    /\ replAt' = "print_ast"
    /\ UNCHANGED <<prompt, snippet_index, cerr>>

\* the snippet is over: buffer.clear(); prompt = primary_prompt; ++snippet_index
SnippetOver ==
    /\ buffer' = <<>>
    /\ prompt' = primary_prompt
    /\ snippet_index' = snippet_index + 1
    /\ replAt' = "input"
    /\ UNCHANGED <<current_source_name, raw_input>>
    /\ PrintAstLeft

\* print_ast returned
ReplPrinted ==
    /\ replAt = "print_ast"
    /\ outcome = "ok"
    /\ SnippetOver
    /\ UNCHANGED cerr

\* catch (const sonar::ParseError& ex), ex.incomplete()
ReplIncomplete ==
    /\ replAt = "print_ast"
    /\ outcome = "error"
    /\ parseError.incomplete
    /\ prompt' = continuation_prompt
    /\ replAt' = "input"
    /\ UNCHANGED <<buffer, snippet_index, current_source_name, cerr, raw_input>>
    /\ PrintAstLeft

\* catch (const sonar::ParseError& ex), not incomplete
ReplParseError ==
    /\ replAt = "print_ast"
    /\ outcome = "error"
    /\ ~parseError.incomplete
    /\ cerr' = report_parse_error(parseError)
    /\ SnippetOver

\* ReplLexError, had tokenize's error been taken for an incomplete snippet
ReplLexErrorKeepsBuffer ==
    /\ replAt = "print_ast"
    /\ lexState = "error"
    /\ prompt' = continuation_prompt
    /\ replAt' = "input"
    /\ UNCHANGED <<buffer, snippet_index, current_source_name, cerr, raw_input>>
    /\ PrintAstLeft

\* catch (const std::exception& ex): what tokenize threw
ReplLexError ==
    /\ replAt = "print_ast"
    /\ lexState = "error"
    /\ cerr' = current_source_name \o <<": error: ">> \o LexWhat(lexError)
    /\ SnippetOver

ReplNext ==
    \/ ReplEndOfInput
    \/ ReplQuit
    \/ ReplBlank
    \/ ReplLine
    \/ ParseNext
    \/ ReplPrinted
    \/ ReplIncomplete
    \/ ReplParseError
    \/ ReplLexError

ReplInit ==
    /\ source = <<>>
    /\ index = LexStart.index
    /\ tokens = LexStart.tokens
    /\ line_offsets = LexStart.line_offsets
    /\ lexState = LexStart.state
    /\ lexError = LexStart.error
    /\ tokens_ = <<>>
    /\ line_offsets_ = <<>>
    /\ current_ = 0
    /\ stack = <<>>
    /\ ret = NoValue
    /\ outcome = "none"
    /\ parseError = NoError
    /\ source_name_ = <<>>
    /\ ReplStart

SpecRepl == ReplInit /\ [][ReplNext]_vars

(***************************************************************************)
(* Properties of the lexer (checked under SpecLex)                         *)
(***************************************************************************)
\* the offsets of the characters of src that follow a newline, ascending
RECURSIVE LineStartsFrom(_, _)
LineStartsFrom(src, i) ==
    IF i >= Len(src) THEN <<>>
    ELSE IF src[i + 1] = "\n" THEN <<i + 1>> \o LineStartsFrom(src, i + 1)
    ELSE LineStartsFrom(src, i + 1)

\* the complete line table of src: offset 0 and every offset after a newline
FullLineTable(src) == <<0>> \o LineStartsFrom(src, 0)

EndPositions == {i \in 1..Len(tokens) : tokens[i].type = "End"}

\* C8: a successful tokenize returns exactly one End token, the last one,
\* with the zero-length span [len(source), len(source)] and an empty lexeme;
\* while tokenize is scanning, and when it throws, no End token has been
\* produced.
C8_ExactlyOneEnd ==
    /\ lexState = "ok" =>
          /\ EndPositions = {Len(tokens)}
          /\ Len(tokens) >= 1
          /\ tokens[Len(tokens)].span = SourceSpan(Len(source), Len(source))
          /\ tokens[Len(tokens)].lexeme = <<>>
    /\ lexState # "ok" => EndPositions = {}

C8_Witness ==
    /\ lexState = "ok"
    /\ Len(tokens) >= 3
    /\ Len(line_offsets) >= 2

\* the source begins with prefix
StartsWith(prefix) ==
    Len(source) >= Len(prefix) /\ SubSeq(source, 1, Len(prefix)) = prefix

\* C9: after a successful tokenize, line_offsets is strictly ascending,
\* starts with 0 and holds exactly 0 and the offset after every newline of
\* the source, each once.
C9_LineOffsetsComplete ==
    lexState = "ok" =>
        /\ line_offsets[1] = 0
        /\ \A i, j \in 1..Len(line_offsets) :
              i < j => line_offsets[i] < line_offsets[j]
        /\ {line_offsets[i] : i \in 1..Len(line_offsets)}
              = {0} \cup {i \in 1..Len(source) : source[i] = "\n"}
        /\ line_offsets = FullLineTable(source)

\* a newline inside a block comment, one inside a raw string and one that
\* ends a line comment have each been scanned
C9_Witness ==
    /\ lexState = "ok"
    /\ \/ StartsWith(<<"/", "*", "\n", "*", "/">>)
       \/ StartsWith(<<"r", "\"", "\n", "\"">>)
    /\ Len(line_offsets) >= 3

\* C10: when tokenize fails, the line and column it reports are those the
\* reported offset has under the complete line table of the source.
C10_ErrorLocation ==
    lexState = "error" =>
        /\ lexError.line = location_for(FullLineTable(source), lexError.offset).line
        /\ lexError.column = location_for(FullLineTable(source), lexError.offset).column

\* an error on a later line, after a newline inside a raw string
C10_Witness ==
    /\ lexState = "error"
    /\ StartsWith(<<"r", "\"", "\n", "\"">>)
    /\ lexError.message = <<"Unexpected character '", "@", "'">>
    /\ lexError.line = 2

\* the source opens a raw string at offset 0: r, n '#', '"'
RawOpens(n) ==
    /\ Len(source) >= n + 2
    /\ source[1] = "r"
    /\ \A k \in 1..n : source[1 + k] = "#"
    /\ source[n + 2] = "\""

\* offset i holds a '"' immediately followed by n '#'
RawCloses(n, i) ==
    /\ i + n < Len(source)
    /\ source[i + 1] = "\""
    /\ \A k \in 1..n : source[i + 1 + k] = "#"

\* the offsets after the opening quote at which a raw string of n '#' closes
RawClosers(n) == {i \in (n + 2)..(Len(source) - 1) : RawCloses(n, i)}

FirstOf(offsets) == CHOOSE i \in offsets : \A j \in offsets : i <= j

\* C11: when the source opens a raw string with n '#', the first token is
\* the String whose value is the source between the opening quote and the
\* first '"' followed by n '#', copied byte for byte (no escape is decoded,
\* a '"' with fewer '#' after it is content), and whose span ends after the
\* closer's '#'; when no such closer exists tokenize fails with
\* "Unterminated raw string literal" and produces no token.
C11_RawString ==
    \A n \in 0..Len(source) :
        RawOpens(n) =>
            /\ tokens # <<>> =>
                  /\ RawClosers(n) # {}
                  /\ LET close == FirstOf(RawClosers(n)) IN
                     /\ tokens[1].type = "String"
                     /\ tokens[1].lexeme = SubSeq(source, n + 3, close)
                     /\ tokens[1].span = SourceSpan(0, close + 1 + n)
            /\ (lexState # "scanning" /\ RawClosers(n) # {}) => tokens # <<>>
            /\ (lexState # "scanning" /\ RawClosers(n) = {}) =>
                  /\ lexState = "error"
                  /\ tokens = <<>>
                  /\ lexError.message = <<"Unterminated raw string literal">>
                  /\ lexError.offset = 0

\* r##"..."#"## : with two '#', a '"' followed by one '#' is content
C11_Witness ==
    /\ RawOpens(2)
    /\ tokens # <<>>
    /\ tokens[1].type = "String"
    /\ tokens[1].lexeme = <<"\"", "#">>
    /\ tokens[1].span = SourceSpan(0, 9)

\* the character an escape stands for
Unescaped(escape) ==
    CASE escape = "n" -> "\n"
      [] escape = "t" -> "\t"
      [] escape = "r" -> "\r"
      [] escape = "\\" -> "\\"
      [] escape = "\"" -> "\""

KnownEscapes == {"n", "t", "r", "\\", "\""}

\* how a quoted string whose content starts at offset i reads: closed at
\* the first unescaped '"' with a decoded value, cut short by a newline or
\* the end of the input, or stopped by a backslash before an unknown character
RECURSIVE QuotedReading(_, _)
QuotedReading(i, value) ==
    IF i >= Len(source) THEN [result |-> "unterminated"]
    ELSE IF source[i + 1] = "\"" THEN [result |-> "closed", close |-> i, value |-> value]
    ELSE IF source[i + 1] = "\n" THEN [result |-> "unterminated"]
    ELSE IF source[i + 1] # "\\" THEN QuotedReading(i + 1, Append(value, source[i + 1]))
    ELSE IF i + 1 >= Len(source) THEN [result |-> "unterminated"]
    ELSE IF source[i + 2] \in KnownEscapes
    THEN QuotedReading(i + 2, Append(value, Unescaped(source[i + 2])))
    ELSE [result |-> "bad_escape", escape |-> source[i + 2]]

UnterminatedStringMessages ==
    {<<"Unterminated string literal">>,
     <<"Unterminated escape sequence in string literal">>}

\* C12: when the source starts with '"', the first token is the String with
\* the decoded content (\n, \t, \r, \\ and \" as their characters) and the
\* span from the opening quote to just after the closing quote; a backslash
\* before any other character fails tokenize with an error that names the
\* character; a newline or the end of the input before the closing quote
\* fails it with an unterminated-string error.
C12_QuotedString ==
    (Len(source) >= 1 /\ source[1] = "\"") =>
        LET reading == QuotedReading(1, <<>>) IN
        /\ tokens # <<>> =>
              /\ reading.result = "closed"
              /\ tokens[1] = Token("String", reading.value, 0, reading.close + 1)
        /\ (lexState # "scanning" /\ reading.result = "closed") => tokens # <<>>
        /\ (lexState # "scanning" /\ reading.result = "bad_escape") =>
              /\ lexState = "error"
              /\ tokens = <<>>
              /\ lexError.message
                    = <<"Unknown escape sequence '\\", reading.escape, "'">>
        /\ (lexState # "scanning" /\ reading.result = "unterminated") =>
              /\ lexState = "error"
              /\ tokens = <<>>
              /\ lexError.message \in UnterminatedStringMessages

\* "\ra" : an escape and a plain character decoded into a two-character value
C12_Witness ==
    /\ StartsWith(<<"\"", "\\", "r", "a", "\"">>)
    /\ tokens # <<>>
    /\ tokens[1] = Token("String", <<"\r", "a">>, 0, 5)

HasDigitAt(i) == i < Len(source) /\ source[i + 1] \in Digits

\* the offset after the longest run of digits that starts at offset i
DigitRun(i) ==
    CHOOSE j \in i..Len(source) :
        /\ \A k \in (i + 1)..j : source[k] \in Digits
        /\ ~HasDigitAt(j)

\* how a number at offset 0 reads: mantissa (digits with an optional point
\* and fraction, or a point and digits), then an optional exponent
NumberReading ==
    LET leading_dot == source[1] = "."
        int_end == IF leading_dot THEN 0 ELSE DigitRun(0)
        has_dot == int_end < Len(source) /\ source[int_end + 1] = "."
        mantissa_end == IF has_dot THEN DigitRun(int_end + 1) ELSE int_end
        has_marker == mantissa_end < Len(source)
                      /\ source[mantissa_end + 1] \in {"e", "E"}
        has_sign == mantissa_end + 1 < Len(source)
                    /\ source[mantissa_end + 2] \in {"+", "-"}
        digits_at == IF has_sign THEN mantissa_end + 2 ELSE mantissa_end + 1
    IN  IF leading_dot /\ ~HasDigitAt(1)
        THEN [result |-> "standalone_dot", offset |-> 0]
        ELSE IF has_marker /\ ~HasDigitAt(digits_at)
        THEN [result |-> "invalid_exponent", offset |-> digits_at]
        ELSE [result |-> "number",
              end |-> IF has_marker THEN DigitRun(digits_at) ELSE mantissa_end]

\* C13: when the source starts with a digit or a '.', the first token is the
\* Number whose lexeme is the source slice of the mantissa (digits with an
\* optional '.' and fraction, or '.' and at least one digit) and the optional
\* exponent (e or E, an optional sign, at least one digit), with the span of
\* that slice; a leading '.' without a digit after it fails with
\* "Standalone '.' is not a valid number", an exponent marker without a digit
\* after it and its optional sign fails with "Invalid exponent in number
\* literal".
C13_ScanNumber ==
    (Len(source) >= 1 /\ source[1] \in Digits \cup {"."}) =>
        LET reading == NumberReading IN
        /\ tokens # <<>> =>
              /\ reading.result = "number"
              /\ tokens[1] = Token("Number", SubSeq(source, 1, reading.end),
                                   0, reading.end)
        /\ (lexState # "scanning" /\ reading.result = "number") => tokens # <<>>
        /\ (lexState # "scanning" /\ reading.result = "standalone_dot") =>
              /\ lexState = "error"
              /\ tokens = <<>>
              /\ lexError.message = <<"Standalone '.' is not a valid number">>
              /\ lexError.offset = 0
        /\ (lexState # "scanning" /\ reading.result = "invalid_exponent") =>
              /\ lexState = "error"
              /\ tokens = <<>>
              /\ lexError.message = <<"Invalid exponent in number literal">>
              /\ lexError.offset = reading.offset

\* 1.2e1 : integer part, fraction and exponent in one lexeme
C13_Witness ==
    /\ source = <<"1", ".", "2", "e", "1">>
    /\ tokens # <<>>
    /\ tokens[1] = Token("Number", source, 0, 5)

\* C17: the tokens are in source order and do not overlap (each ends at or
\* before the start of the next), every token but End has a non-empty span
\* within [0, Len(source)], and the sequence tokenize returns ends with the
\* only End token.
C17_TokenOrder ==
    /\ \A i \in 1..(Len(tokens) - 1) :
          tokens[i].span.end <= tokens[i + 1].span.start
    /\ \A i \in 1..Len(tokens) :
          tokens[i].type # "End" =>
              /\ 0 <= tokens[i].span.start
              /\ tokens[i].span.start < tokens[i].span.end
              /\ tokens[i].span.end <= Len(source)
    /\ lexState = "ok" =>
          /\ tokens # <<>>
          /\ tokens[Len(tokens)].type = "End"
          /\ \A i \in 1..(Len(tokens) - 1) : tokens[i].type # "End"

\* `&&&` returned: AndAnd, Ampersand and End, each starting where the one
\* before it ends
C17_Witness ==
    /\ source = <<"&", "&", "&">>
    /\ lexState = "ok"
    /\ Len(tokens) = 3
    /\ tokens[1].span = SourceSpan(0, 2)
    /\ tokens[2].span = SourceSpan(2, 3)
    /\ tokens[3].type = "End"

\* the scanner is at a character ch of the source
ScanningAt(ch) ==
    /\ lexState = "scanning"
    /\ index < Len(source)
    /\ source[index + 1] = ch

FollowedBy(chars) == index + 1 < Len(source) /\ source[index + 2] \in chars

\* the step pushes the token of the type over the next length characters
Pushes(type, length) ==
    /\ tokens' = Append(tokens,
                        Token(type, SubSeq(source, index + 1, index + length),
                              index, index + length))
    /\ index' = index + length

\* the step at ch pushes the two-character token when partner follows, and
\* the one-character token otherwise
LongestMatch(ch, partner, double, single) ==
    ScanningAt(ch) =>
        IF FollowedBy({partner}) THEN Pushes(double, 2) ELSE Pushes(single, 1)

\* C20: at '-', '&' or '|' the scanner pushes one Arrow, AndAnd or OrOr with
\* a two-character span when '>', '&' or '|' follows, and the one-character
\* Minus, Ampersand or Pipe otherwise; at '/' it pushes no token when '/' or
\* '*' follows (a comment starts) and Slash otherwise, so no Slash token is
\* ever followed by '/' or '*'.
C20_LongestMatch ==
    /\ [](\A i \in 1..Len(tokens) :
            /\ tokens[i].type = "Slash" =>
                  (tokens[i].span.end < Len(source) =>
                      source[tokens[i].span.end + 1] \notin {"/", "*"})
            /\ tokens[i].type \in {"Arrow", "AndAnd", "OrOr"} =>
                  tokens[i].span.end = tokens[i].span.start + 2
            /\ tokens[i].type \in {"Minus", "Ampersand", "Pipe", "Slash"} =>
                  tokens[i].span.end = tokens[i].span.start + 1)
    /\ [][/\ LongestMatch("-", ">", "Arrow", "Minus")
          /\ LongestMatch("&", "&", "AndAnd", "Ampersand")
          /\ LongestMatch("|", "|", "OrOr", "Pipe")
          /\ ScanningAt("/") =>
                IF FollowedBy({"/", "*"})
                THEN /\ tokens' = tokens
                     /\ \/ index' >= index + 2
                        \/ lexState' = "error"
                ELSE Pushes("Slash", 1)
         ]_vars

\* `->-` scanned: one Arrow over two characters, then a Minus over one
C20_Witness ==
    /\ source = <<"-", ">", "-">>
    /\ Len(tokens) >= 2
    /\ tokens[1] = Token("Arrow", <<"-", ">">>, 0, 2)
    /\ tokens[2] = Token("Minus", <<"-">>, 2, 3)

\* the offset of the first newline at or after offset i, or the source's
\* length when there is none
LineEnd(i) ==
    FirstOf({j \in i..Len(source) : j = Len(source) \/ source[j + 1] = "\n"})

\* the offsets at or after i where "*/" stands
BlockClosers(i) ==
    {j \in i..(Len(source) - 2) : source[j + 1] = "*" /\ source[j + 2] = "/"}

\* C21: a comment pushes no token.  At "//" the scanner moves to the next
\* newline, which it leaves unread, or to the end of the source; at "/*" it
\* moves just past the first "*/" that follows the opener, and when there is
\* none tokenize fails with "Unterminated block comment" at the offset of
\* the end of the source.
C21_Comments ==
    [][/\ (ScanningAt("/") /\ FollowedBy({"/"})) =>
             /\ tokens' = tokens
             /\ lexState' = "scanning"
             /\ index' = LineEnd(index + 2)
             /\ line_offsets' = line_offsets
       /\ (ScanningAt("/") /\ FollowedBy({"*"})) =>
             /\ tokens' = tokens
             /\ IF BlockClosers(index + 2) # {}
                THEN /\ lexState' = "scanning"
                     /\ index' = FirstOf(BlockClosers(index + 2)) + 2
                ELSE /\ lexState' = "error"
                     /\ lexError'.message = <<"Unterminated block comment">>
                     /\ lexError'.offset = Len(source)
      ]_vars

\* `/**//*` : the first comment is closed and the second is not, which fails
\* tokenize at the end of the source with no token pushed
C21_Witness ==
    /\ source = <<"/", "*", "*", "/", "/", "*">>
    /\ lexState = "error"
    /\ lexError.message = <<"Unterminated block comment">>
    /\ lexError.offset = 6
    /\ tokens = <<>>

(***************************************************************************)
(* Properties of the parser (checked under SpecParse)                      *)
(***************************************************************************)
\* the nodes a node owns directly
Children(n) ==
    CASE n.kind = "Prefix" -> {n.right}
      [] n.kind = "Infix" -> {n.left, n.right}
      [] n.kind = "Assign" -> {n.value}
      [] n.kind = "Grouping" -> {n.expression}
      [] n.kind = "Block" ->
            {n.statements[i] : i \in 1..Len(n.statements)}
            \cup (IF n.value # NoValue THEN {n.value} ELSE {})
      [] n.kind = "If" ->
            {n.condition, n.then}
            \cup (IF n.else_branch # NoValue THEN {n.else_branch} ELSE {})
      [] n.kind = "While" -> {n.condition, n.body}
      [] n.kind = "For" -> {n.pattern, n.iterable, n.body}
      [] n.kind = "Function" -> {n.body}
      [] n.kind = "Let" -> {n.value}
      [] n.kind = "ExpressionStatement" -> {n.expression}
      [] OTHER -> {}

\* a node and every node below it
RECURSIVE Nodes(_)
Nodes(n) == {n} \cup UNION {Nodes(child) : child \in Children(n)}

\* the tree parse() returned
Returned == IF outcome = "ok" THEN Nodes(ret) ELSE {}

\* the first token that starts at or after offset
FollowingToken(offset) ==
    tokens_[CHOOSE i \in 1..Len(tokens_) :
               /\ tokens_[i].span.start >= offset
               /\ \A j \in 1..(i - 1) : tokens_[j].span.start < offset]

\* the token that starts at offset
TokenAt(offset) ==
    tokens_[CHOOSE i \in 1..Len(tokens_) : tokens_[i].span.start = offset]

\* the End sentinel's span: zero-length, at the end of the source
EndSpan == SourceSpan(Len(source), Len(source))

\* C1: whenever parse() fails, the error's incomplete flag is true exactly
\* when the error is reported at the End sentinel (its span is End's
\* zero-length span at the end of the source, the token the cursor stopped
\* at), and false when it is reported at any other token.
C1_IncompleteIffEnd ==
    outcome = "error" =>
        /\ parseError.incomplete <=> parseError.span = EndSpan
        /\ \E i \in 1..Len(tokens_) :
              /\ tokens_[i].span = parseError.span
              /\ parseError.incomplete <=> tokens_[i].type = "End"
        /\ parseError.incomplete \in BOOLEAN

\* `fn ( a`: the input ran out where ')' was required
C1_Witness ==
    /\ outcome = "error"
    /\ parseError.incomplete
    /\ parseError.message = <<"Expected ')' after parameter list">>
    /\ parseError.span = EndSpan

\* the ladder of binding strengths, lowest first:
\* assignment < || < && < | < & < + - < * / < prefix
LadderRank(type) ==
    CASE type = "Equals" -> 1
      [] type = "OrOr" -> 2
      [] type = "AndAnd" -> 3
      [] type = "Pipe" -> 4
      [] type = "Ampersand" -> 5
      [] type \in {"Plus", "Minus"} -> 6
      [] type \in {"Star", "Slash"} -> 7

IsOperatorNode(n) == n.kind \in {"Assign", "Infix", "Prefix"}

OperatorRank(n) ==
    CASE n.kind = "Assign" -> 1
      [] n.kind = "Infix" -> LadderRank(n.op)
      [] n.kind = "Prefix" -> 8

\* the operands of an operator node
Operands(n) ==
    CASE n.kind = "Assign" -> {n.value}
      [] n.kind = "Infix" -> {n.left, n.right}
      [] n.kind = "Prefix" -> {n.right}

IsOperand(token) == token.type \in {"Identifier", "Number"}

IsInfixOperator(token) ==
    token.type \in {"Equals", "OrOr", "AndAnd", "Pipe", "Ampersand", "Plus",
                    "Minus", "Star", "Slash"}

\* the source is `x op y op z`
IsChain3 ==
    /\ Len(tokens_) = 6
    /\ \A i \in {1, 3, 5} : IsOperand(tokens_[i])
    /\ \A i \in {2, 4} : IsInfixOperator(tokens_[i])

\* C2: in every tree parse() returns, an operator that is the direct operand
\* of another operator binds at least as tightly as it (no operator of lower
\* precedence is nested directly inside one of higher precedence); and of two
\* binary operators of different levels in `x op y op z`, the lower one is the
\* root and the higher one its operand on the side where it stands.
C2_PrecedenceLadder ==
    /\ \A n \in Returned :
          IsOperatorNode(n) =>
              \A operand \in Operands(n) :
                  IsOperatorNode(operand) =>
                      OperatorRank(operand) >= OperatorRank(n)
    /\ (IsChain3 /\ tokens_[2].type # "Equals" /\ tokens_[4].type # "Equals"
        /\ LadderRank(tokens_[2].type) # LadderRank(tokens_[4].type)) =>
          /\ outcome # "error"
          /\ outcome = "ok" =>
                IF LadderRank(tokens_[2].type) < LadderRank(tokens_[4].type)
                THEN /\ ret.kind = "Infix"
                     /\ ret.op_span = tokens_[2].span
                     /\ ret.left.span = tokens_[1].span
                     /\ ret.right.kind = "Infix"
                     /\ ret.right.op_span = tokens_[4].span
                ELSE /\ ret.kind = "Infix"
                     /\ ret.op_span = tokens_[4].span
                     /\ ret.right.span = tokens_[5].span
                     /\ ret.left.kind = "Infix"
                     /\ ret.left.op_span = tokens_[2].span

\* `1 | a & a` is (| 1 (& a a))
C2_Witness ==
    /\ outcome = "ok"
    /\ IsChain3
    /\ ret.kind = "Infix"
    /\ ret.op = "Pipe"
    /\ ret.right.kind = "Infix"
    /\ ret.right.op = "Ampersand"

\* C3: in every tree parse() returns, the right operand of a binary operator
\* is never a bare binary operator of the same level; `x op y op z` with two
\* binary operators of one level parses, as ((x op y) op z); and
\* `x = y = z` parses as Assign(x, Assign(y, z)).
C3_Associativity ==
    /\ \A n \in Returned :
          (n.kind = "Infix" /\ n.right.kind = "Infix") =>
              LadderRank(n.right.op) # LadderRank(n.op)
    /\ (IsChain3 /\ tokens_[2].type # "Equals"
        /\ LadderRank(tokens_[2].type) = LadderRank(tokens_[4].type)) =>
          /\ outcome # "error"
          /\ outcome = "ok" =>
                /\ ret.kind = "Infix"
                /\ ret.op = tokens_[4].type
                /\ ret.op_span = tokens_[4].span
                /\ ret.right.span = tokens_[5].span
                /\ ret.left.kind = "Infix"
                /\ ret.left.op = tokens_[2].type
                /\ ret.left.op_span = tokens_[2].span
                /\ ret.left.left.span = tokens_[1].span
                /\ ret.left.right.span = tokens_[3].span
    /\ (IsChain3 /\ tokens_[2].type = "Equals" /\ tokens_[4].type = "Equals"
        /\ outcome = "ok") =>
          /\ ret.kind = "Assign"
          /\ ret.name_span = tokens_[1].span
          /\ ret.value.kind = "Assign"
          /\ ret.value.name_span = tokens_[3].span
          /\ ret.value.value.span = tokens_[5].span

\* `a - a - a` is ((a - a) - a)
C3_Witness ==
    /\ outcome = "ok"
    /\ IsChain3
    /\ ret.kind = "Infix"
    /\ ret.op = "Minus"
    /\ ret.left.kind = "Infix"
    /\ ret.left.op = "Minus"

AssignmentMessage == <<"Left-hand side of assignment must be a variable">>

\* C4: the `=` routine goes past its check only with a bare Variable as its
\* left operand; with any other left operand its next step fails the parse
\* with "Left-hand side of assignment must be a variable" and incomplete =
\* false; and the target of every Assign in a returned tree is the
\* identifier token the Assign starts at.
C4_AssignTarget ==
    /\ [](/\ (outcome = "running" /\ stack # <<>>
              /\ Head(stack).fn = "parse_assignment"
              /\ Head(stack).pc # "start") =>
                 Head(stack).left.kind = "Variable"
          /\ \A n \in Returned :
                n.kind = "Assign" =>
                    /\ n.name_span.start = n.span.start
                    /\ TokenAt(n.name_span.start).type = "Identifier"
                    /\ TokenAt(n.name_span.start).span = n.name_span
                    /\ TokenAt(n.name_span.start).lexeme = n.name
                    /\ FollowingToken(n.name_span.end).type = "Equals")
    /\ [][(Running("parse_assignment", "start")
           /\ Head(stack).left.kind # "Variable") =>
              /\ outcome' = "error"
              /\ parseError'.message = AssignmentMessage
              /\ parseError'.incomplete = FALSE
              /\ parseError'.span = Head(stack).op.span]_vars

\* `( a ) = 1`: a grouping on the left of `=`
C4_Witness ==
    /\ outcome = "error"
    /\ parseError.message = AssignmentMessage
    /\ ~parseError.incomplete
    /\ tokens_[1].type = "LeftParen"
    /\ tokens_[4].type = "Equals"

\* a named function declaration: a Let that starts at `fn`
IsFnDeclaration(statement) ==
    statement.kind = "Let" /\ TokenAt(statement.span.start).type = "Fn"

\* the closing token of the sequence the routine on top asked for
Closer == IF Head(stack).fn = "parse" THEN "End" ELSE "RightBrace"

\* parse_sequence has just returned to parse() or to parse_block
SequenceReturned ==
    /\ outcome = "running"
    /\ ret.kind = "StatementSequence"

\* C5: in the sequence parse_sequence returns, every expression that was
\* followed by `;` is an ExpressionStatement and not the value; the value is
\* present exactly when the last thing parsed is an expression with no `;`
\* after it, and it is that expression; and when something other than the
\* closing token follows the value, the next step fails the parse with
\* incomplete = false.
C5_Sequencing ==
    /\ [](SequenceReturned =>
            /\ \A i \in 1..Len(ret.statements) :
                  LET statement == ret.statements[i] IN
                  /\ statement.kind \in {"Let", "ExpressionStatement"}
                  /\ statement.kind = "ExpressionStatement" =>
                        /\ statement.expression # NoValue
                        /\ statement.span = statement.expression.span
                        /\ FollowingToken(statement.span.end).type = "Semicolon"
            /\ ret.value # NoValue =>
                  /\ current_ > 0
                  /\ tokens_[current_].span.end = ret.value.span.end
                  /\ Peek(current_).type # "Semicolon"
                  /\ \A i \in 1..Len(ret.statements) :
                        ret.statements[i].span.end <= ret.value.span.start
            /\ ret.value = NoValue =>
                  \/ current_ = 0
                  \/ tokens_[current_].type \in {"Semicolon", "LeftBrace"}
                  \/ /\ ret.statements # <<>>
                     /\ IsFnDeclaration(ret.statements[Len(ret.statements)])
                     /\ ret.statements[Len(ret.statements)].span.end
                           = tokens_[current_].span.end)
    /\ [][(SequenceReturned /\ ret.value # NoValue
           /\ ~IsAtEnd(current_) /\ ~Check(current_, Closer)) =>
              /\ outcome' = "error"
              /\ parseError'.incomplete = FALSE
              /\ parseError'.span = Peek(current_).span]_vars

\* `{ 1 1 }` fails at the second 1
C5_Witness ==
    /\ outcome = "error"
    /\ ~parseError.incomplete
    /\ parseError.message = <<"Expected '}' after block">>
    /\ Len(tokens_) = 5
    /\ tokens_[1].type = "LeftBrace"
    /\ tokens_[3].type = "Number"
    /\ parseError.span = tokens_[3].span

\* C6 as stated: in every Block parse() returns, every statement is followed
\* by the `;` that terminated it.
C6_EveryStatementTerminated ==
    \A block \in Returned :
        block.kind = "Block" =>
            \A i \in 1..Len(block.statements) :
                FollowingToken(block.statements[i].span.end).type = "Semicolon"

\* C6, amended: in every Block parse() returns, every statement is either a
\* named function declaration, which no `;` follows, or a let or expression
\* statement followed by the `;` that terminated it; the statements stand in
\* source order; and the value, if any, is one expression that stands after
\* every statement and has no `;` after it.
C6_StatementsTerminatedButFn ==
    \A block \in Returned :
        block.kind = "Block" =>
            /\ \A i \in 1..Len(block.statements) :
                  LET statement == block.statements[i]
                      following == FollowingToken(statement.span.end)
                  IN  /\ statement.kind \in {"Let", "ExpressionStatement"}
                      /\ IF IsFnDeclaration(statement)
                         THEN following.type # "Semicolon"
                         ELSE following.type = "Semicolon"
            /\ \A i, j \in 1..Len(block.statements) :
                  i < j => block.statements[i].span.end
                              <= block.statements[j].span.start
            /\ block.value # NoValue =>
                  /\ block.value.kind \notin {"Let", "ExpressionStatement",
                                               "StatementSequence"}
                  /\ FollowingToken(block.value.span.end).type
                        \in {"RightBrace", "End"}
                  /\ \A i \in 1..Len(block.statements) :
                        block.statements[i].span.end <= block.value.span.start

\* `{ fn a ( ) { } a ; a }`: a block with a function declaration, an
\* expression statement and a value
C6_Witness ==
    /\ outcome = "ok"
    /\ ret.kind = "Block"
    /\ Len(ret.statements) = 2
    /\ IsFnDeclaration(ret.statements[1])
    /\ ret.statements[2].kind = "ExpressionStatement"
    /\ ret.value # NoValue

\* C7: parse() of the tokens of an empty source returns Unit with the End
\* token's span; and when parse() returns, it returns the Unit at the End
\* token exactly when the top-level sequence has no statements and no value,
\* the value itself when there are no statements, and otherwise a Block of
\* the sequence's statements and value.
C7_ProgramShape ==
    /\ []((outcome = "ok" /\ Len(tokens_) = 1) =>
             /\ source = <<>>
             /\ ret = [kind |-> "Unit", span |-> tokens_[1].span]
             /\ tokens_[1].type = "End")
    /\ []((outcome # "idle" /\ Len(tokens_) = 1) => outcome # "error")
    /\ [][(Running("parse", "after_sequence") /\ outcome' = "ok") =>
              /\ (ret.statements = <<>> /\ ret.value = NoValue)
                    <=> ret' = [kind |-> "Unit", span |-> Back.span]
              /\ (ret.statements = <<>> /\ ret.value # NoValue) =>
                    ret' = ret.value
              /\ ret.statements # <<>> =>
                    /\ ret'.kind = "Block"
                    /\ ret'.statements = ret.statements
                    /\ ret'.value = ret.value]_vars

\* the empty source has been parsed
C7_Witness ==
    /\ outcome = "ok"
    /\ source = <<>>
    /\ ret.kind = "Unit"
    /\ ret.span = SourceSpan(0, 0)

\* the spans a node records besides its own: its children's, and those of
\* the name, operator and parameter tokens it keeps
PartSpans(n) ==
    {child.span : child \in Children(n)}
    \cup (IF n.kind \in {"Assign", "Let"} THEN {n.name_span} ELSE {})
    \cup (IF n.kind \in {"Prefix", "Infix"} THEN {n.op_span} ELSE {})
    \cup (IF n.kind = "Function"
          THEN {n.parameters[i].span : i \in 1..Len(n.parameters)}
          ELSE {})

Encloses(outer, inner) ==
    outer.start <= inner.start /\ inner.end <= outer.end

\* a token of one of the types starts (ends) at the offset
TokenStartsAt(offset, types) ==
    \E i \in 1..Len(tokens_) :
        tokens_[i].span.start = offset /\ tokens_[i].type \in types

TokenEndsAt(offset, types) ==
    \E i \in 1..Len(tokens_) :
        tokens_[i].span.end = offset /\ tokens_[i].type \in types

\* the end of the last thing a sequence holds
SequenceEnd(block) ==
    IF block.value # NoValue THEN block.value.span.end
    ELSE block.statements[Len(block.statements)].span.end

\* the node starts at its leftmost child or token
StartsLeftmost(n) ==
    CASE n.kind = "Prefix" -> n.span.start = n.op_span.start
      [] n.kind = "Infix" -> n.span.start = n.left.span.start
      [] n.kind = "Assign" -> n.span.start = n.name_span.start
      [] n.kind = "Grouping" -> TokenStartsAt(n.span.start, {"LeftParen"})
      [] n.kind = "Block" ->
            \/ TokenStartsAt(n.span.start, {"LeftBrace"})
            \/ /\ n = ret
               /\ n.statements # <<>>
               /\ n.span.start = n.statements[1].span.start
      [] n.kind = "If" -> TokenStartsAt(n.span.start, {"If"})
      [] n.kind = "While" -> TokenStartsAt(n.span.start, {"While"})
      [] n.kind = "For" -> TokenStartsAt(n.span.start, {"For"})
      [] n.kind = "Function" -> TokenStartsAt(n.span.start, {"Fn"})
      [] n.kind = "Let" -> TokenStartsAt(n.span.start, {"Let", "Fn"})
      [] n.kind = "ExpressionStatement" -> n.span.start = n.expression.span.start

\* the node ends at its rightmost child or token
EndsRightmost(n) ==
    CASE n.kind = "Prefix" -> n.span.end = n.right.span.end
      [] n.kind = "Infix" -> n.span.end = n.right.span.end
      [] n.kind = "Assign" -> n.span.end = n.value.span.end
      [] n.kind = "Grouping" -> TokenEndsAt(n.span.end, {"RightParen"})
      [] n.kind = "Block" ->
            \/ /\ TokenStartsAt(n.span.start, {"LeftBrace"})
               /\ TokenEndsAt(n.span.end, {"RightBrace"})
            \/ /\ n = ret
               /\ n.statements # <<>>
               /\ n.span.end = SequenceEnd(n)
      [] n.kind = "If" ->
            n.span.end = IF n.else_branch # NoValue
                         THEN n.else_branch.span.end
                         ELSE n.then.span.end
      [] n.kind = "While" -> n.span.end = n.body.span.end
      [] n.kind = "For" -> n.span.end = n.body.span.end
      [] n.kind = "Function" -> n.span.end = n.body.span.end
      [] n.kind = "Let" -> n.span.end = n.value.span.end
      [] n.kind = "ExpressionStatement" -> n.span.end = n.expression.span.end

SpannedKinds ==
    {"Prefix", "Infix", "Assign", "Grouping", "Block", "If", "While", "For",
     "Function", "Let", "ExpressionStatement"}

\* C14: in the tree parse() returns, every node's span has start <= end, and
\* every Prefix, Infix, Assign, Grouping, Block (the root Block too), If,
\* While, For, Function, Let and expression statement encloses the spans of
\* its children and of its name, operator and parameter tokens, starts where
\* its leftmost child or token starts and ends where its rightmost child or
\* token ends.
C14_SpanEnclosure ==
    \A n \in Returned :
        /\ n.span.start <= n.span.end
        /\ n.kind \in SpannedKinds =>
              /\ \A part \in PartSpans(n) : Encloses(n.span, part)
              /\ StartsLeftmost(n)
              /\ EndsRightmost(n)

\* `if true { 1 } else { 1 }` returned: an If that ends with its else branch,
\* beyond the end of its then branch
C14_Witness ==
    /\ outcome = "ok"
    /\ ret.kind = "If"
    /\ ret.else_branch # NoValue
    /\ ret.span = SourceSpan(0, Len(source))
    /\ ret.then.span.end < ret.span.end

\* C15: parsing `fn(name) -> string name`, whose parameter name is not
\* followed by ':' and a type, fails with the ParseError "Expected ':' after
\* parameter name".
C15_RequiresParameterAnnotation ==
    (source = JoinWords(UnannotatedParameter) /\ outcome \in {"ok", "error"}) =>
        /\ outcome = "error"
        /\ parseError.message = <<"Expected ':' after parameter name">>

\* what parse() does with that source: the parameter list closes after
\* `name`, and the body's parse_expression finds no prefix rule for `->`
C15_UnexpectedArrow ==
    (source = JoinWords(UnannotatedParameter) /\ outcome \in {"ok", "error"}) =>
        /\ outcome = "error"
        /\ parseError.message
              = <<"Unexpected token '", "-", ">", "' while parsing expression">>
        /\ parseError.span = SourceSpan(9, 11)
        /\ ~parseError.incomplete

\* parse_sequence is about to parse what starts at an `fn` token
AtFn == SequenceLoops /\ Check(current_, "Fn")

\* the statement parse_fn_statement returned is the Let that
\* `let <name> = fn(...) body` gives: the name is the identifier after `fn`,
\* the value is the Function literal that starts at the `fn` token
IsLetOfFunction(statement) ==
    /\ statement.kind = "Let"
    /\ statement.value.kind = "Function"
    /\ \E i \in 1..(Len(tokens_) - 1) :
          /\ tokens_[i].type = "Fn"
          /\ tokens_[i].span.start = statement.span.start
          /\ tokens_[i + 1].type = "Identifier"
          /\ statement.name = tokens_[i + 1].lexeme
          /\ statement.name_span = tokens_[i + 1].span
          /\ statement.value.span.start = tokens_[i].span.start
    /\ statement.span.end = statement.value.span.end

FailsWith(message, incomplete) ==
    /\ outcome' = "error"
    /\ parseError'.message = message
    /\ parseError'.incomplete = incomplete

\* C16: at statement position `fn` before an identifier is parsed by
\* parse_fn_statement, whose result is the Let binding that name to the
\* Function literal and becomes a statement of the sequence, unless a ';'
\* follows, which fails the parse with incomplete = false; `fn` before
\* anything else is parsed by parse_expression as a function literal; and
\* after a let statement anything but ';' fails the parse with "Expected ';'
\* after let statement".
C16_FnAndLetStatements ==
    [][/\ (AtFn /\ PeekAt(current_, 1).type = "Identifier") =>
             Head(stack').fn = "parse_fn_statement"
       /\ (AtFn /\ PeekAt(current_, 1).type # "Identifier") =>
             /\ Head(stack').fn = "parse_expression"
             /\ find_prefix_rule(Peek(current_).type) = "parse_function_literal"
       /\ Running("parse_sequence", "after_fn") =>
             /\ IsLetOfFunction(ret)
             /\ IF Check(current_, "Semicolon")
                THEN /\ FailsWith(<<"Unexpected ';' after function definition">>,
                                  FALSE)
                     /\ parseError'.span = Peek(current_).span
                ELSE /\ outcome' = "running"
                     /\ Head(stack').statements
                          = Append(Head(stack).statements, ret)
       /\ Running("parse_sequence", "after_let") =>
             /\ ret.kind = "Let"
             /\ IF Check(current_, "Semicolon")
                THEN /\ outcome' = "running"
                     /\ Head(stack').statements
                          = Append(Head(stack).statements, ret)
                ELSE FailsWith(<<"Expected ';' after let statement">>,
                               IsAtEnd(current_))
      ]_vars

\* `fn a ( ) 1 ;` : the declaration is parsed and the ';' after it refused
C16_Witness ==
    /\ outcome = "error"
    /\ parseError.message = <<"Unexpected ';' after function definition">>
    /\ ~parseError.incomplete
    /\ TokenAt(0).type = "Fn"
    /\ TokenAt(parseError.span.start).type = "Semicolon"

(***************************************************************************)
(* Properties of the interactive loop (checked under SpecRepl)             *)
(***************************************************************************)
\* print_ast has ended and the loop is about to go back to console.input
PrintAstEnded == replAt = "print_ast" /\ outcome \notin {"idle", "running"}

TokenizeFailed == PrintAstEnded /\ lexState = "error"

ParseIncomplete ==
    PrintAstEnded /\ outcome = "error" /\ parseError.incomplete

ParseFailed ==
    PrintAstEnded /\ outcome = "error" /\ ~parseError.incomplete

ParseSucceeded == PrintAstEnded /\ outcome = "ok"

\* the snippet ends: empty buffer, primary prompt, next snippet index
SnippetEnds ==
    /\ replAt' = "input"
    /\ buffer' = <<>>
    /\ prompt' = <<"sonar> ">>
    /\ snippet_index' = snippet_index + 1

\* the snippet goes on: same buffer and source name, continuation prompt
SnippetGoesOn ==
    /\ replAt' = "input"
    /\ buffer' = buffer
    /\ buffer' # <<>>
    /\ prompt' = <<"... ">>
    /\ snippet_index' = snippet_index
    /\ current_source_name' = current_source_name
    /\ cerr' = cerr

\* C18: a failure of tokenize is never an incomplete error (no ParseError
\* exists when tokenize fails), and the loop ends the snippet on it: the
\* buffer is cleared and the primary prompt returns; the loop waits for
\* more input with a kept buffer only after an incomplete ParseError.
C18_LexErrorTerminal ==
    /\ [](lexState = "error" => outcome = "none" /\ parseError = NoError)
    /\ [][/\ TokenizeFailed => SnippetEnds
          /\ (replAt = "print_ast" /\ replAt' = "input" /\ buffer' # <<>>) =>
                (lexState = "ok" /\ ParseIncomplete)
         ]_vars

\* `1 +`, then `"`: the second line makes tokenize fail on the kept buffer,
\* and the snippet is over
C18_Witness ==
    /\ replAt = "input"
    /\ buffer = <<>>
    /\ prompt = primary_prompt
    /\ snippet_index = 2
    /\ cerr = <<"<repl #", "1", ">", ": error: ", "Unterminated string literal",
                " at line ", "2", ", column ", "1">>

\* the line `source_name:line:column: error: message`
Diagnostic(name, line, column, message) ==
    name \o <<":", ToString(line), ":", ToString(column), ": error: ">>
         \o message

\* after an incomplete ParseError the snippet goes on; after a success or
\* any other error it ends
AttemptDecides ==
    /\ ParseIncomplete => SnippetGoesOn
    /\ (ParseSucceeded \/ ParseFailed \/ TokenizeFailed) => SnippetEnds
    /\ ParseSucceeded => cerr' = cerr

\* a line read while a snippet goes on is appended after a newline, and
\* print_ast is given the whole buffer under the same source name
LineAppended ==
    (replAt = "input" /\ buffer # <<>> /\ replAt' = "print_ast") =>
        /\ \E line \in ReplLines : buffer' = buffer \o <<"\n">> \o line
        /\ source' = buffer'
        /\ current_source_name' = current_source_name
        /\ LET result == tokenize(buffer') IN
           /\ lexState' = result.state
           /\ result.state = "ok" =>
                 /\ tokens_' = result.tokens
                 /\ source_name_' = current_source_name
                 /\ outcome' = "idle"

ParseErrorReported ==
    ParseFailed =>
        cerr' = Diagnostic(current_source_name, parseError.location.line,
                           parseError.location.column, parseError.message)

\* C19: after an incomplete ParseError the buffer is kept, the prompt is the
\* continuation prompt and the source name is unchanged, and the next line
\* is appended after a newline and the whole buffer parsed again; after a
\* success or a non-incomplete error the buffer is cleared, the prompt is the
\* primary prompt and the snippet index is one more; and every
\* non-incomplete error, a failure of tokenize too, is reported as
\* source_name:line:column: error: message.
C19_ReplProtocol ==
    [][/\ AttemptDecides
       /\ LineAppended
       /\ ParseErrorReported
       /\ TokenizeFailed =>
             cerr' = Diagnostic(current_source_name, lexError.line,
                                lexError.column, lexError.message)
      ]_vars

\* what the loop does: the same, but a failure of tokenize is reported as
\* source_name: error: message at line L, column C
C19_ReplProtocolOfParseErrors ==
    [][/\ AttemptDecides
       /\ LineAppended
       /\ ParseErrorReported
       /\ TokenizeFailed =>
             cerr' = current_source_name
                     \o <<": error: ">> \o lexError.message
                     \o <<" at line ", ToString(lexError.line),
                          ", column ", ToString(lexError.column)>>
      ]_vars

\* the table is ascending and starts with 0
IsLineTable(table) ==
    /\ table # <<>>
    /\ table[1] = 0
    /\ \A i, j \in 1..Len(table) : i < j => table[i] < table[j]

\* the 0-based index of the last line start that is <= offset
LastLineStart(table, offset) ==
    CHOOSE k \in 0..(Len(table) - 1) :
        /\ table[k + 1] <= offset
        /\ \A j \in (k + 2)..Len(table) : table[j] > offset

\* the parser exists: print_ast has constructed it
ParserConstructed == outcome \in {"idle", "running", "ok", "error"}

\* C22: the parser's line table is ascending and starts with 0, and for
\* every offset from 0 to past the end of the source location_for gives
\* line k + 1 and column offset - line_offsets_[k] + 1, k being the index of
\* the last line start <= offset, so that line and column are >= 1; and the
\* location of every ParseError is location_for of its span's start.
C22_LocationFor ==
    ParserConstructed =>
        /\ IsLineTable(line_offsets_)
        /\ \A offset \in 0..(Len(source) + 1) :
              LET k == LastLineStart(line_offsets_, offset)
                  location == location_for(line_offsets_, offset)
              IN  /\ location.line = k + 1
                  /\ location.column = offset - line_offsets_[k + 1] + 1
                  /\ location.line >= 1
                  /\ location.column >= 1
        /\ outcome = "error" =>
              LET k == LastLineStart(line_offsets_, parseError.span.start) IN
              /\ parseError.location.line = k + 1
              /\ parseError.location.column
                    = parseError.span.start - line_offsets_[k + 1] + 1

\* `1 +`, then `)`: the error is at the first column of the second line
C22_Witness ==
    /\ outcome = "error"
    /\ source = <<"1", " ", "+", "\n", ")">>
    /\ line_offsets_ = <<0, 4>>
    /\ parseError.span.start = 4
    /\ parseError.location = [line |-> 2, column |-> 1]

\* the token types an expression can start with
ExpressionStarts ==
    {"Number", "String", "True", "False", "Minus", "LeftParen", "Identifier",
     "Fn", "LeftBrace", "If", "While", "For"}

\* the step throws the ParseError with this message, at the span, flagged so
ThrowsAt(message, span, incomplete) ==
    /\ outcome' = "error"
    /\ parseError'.message = message
    /\ parseError'.span = span
    /\ parseError'.incomplete = incomplete

\* C23: parse_expression, at a token that is not End and cannot start an
\* expression, fails at that token's span with incomplete = false, with
\* "Unexpected 'let' while parsing expression" for `let` and "Unexpected
\* token '<lexeme>' while parsing expression" for any other; at End it fails
\* with the incomplete error "Unexpected end of input while parsing
\* expression"; at a token that can start an expression it does not fail.
C23_NoPrefixRule ==
    [][Running("parse_expression", "start") =>
           LET token == Peek(current_) IN
           CASE token.type = "End" ->
                  ThrowsAt(<<"Unexpected end of input while parsing expression">>,
                           token.span, TRUE)
             [] token.type = "Let" ->
                  ThrowsAt(<<"Unexpected 'let' while parsing expression">>,
                           token.span, FALSE)
             [] token.type \in ExpressionStarts -> outcome' = "running"
             [] OTHER ->
                  ThrowsAt(<<"Unexpected token '">> \o token.lexeme
                              \o <<"' while parsing expression">>,
                           token.span, FALSE)
      ]_vars

\* a `let` after the first token, where an expression was expected
C23_Witness ==
    /\ outcome = "error"
    /\ parseError.message = <<"Unexpected 'let' while parsing expression">>
    /\ ~parseError.incomplete
    /\ parseError.span.start > 0
    /\ TokenAt(parseError.span.start).type = "Let"

\* the tokens after the '(' of a function literal, the first at position 0
ListToken(position) == PeekAt(current_ + 1, position)

\* the number of the parameter at which the list stops: the first whose
\* place holds no identifier or which no comma follows
ListStop ==
    CHOOSE n \in 1..Len(tokens_) :
        /\ \/ ListToken(2 * (n - 1)).type # "Identifier"
           \/ ListToken(2 * n - 1).type # "Comma"
        /\ \A k \in 1..(n - 1) :
              /\ ListToken(2 * (k - 1)).type = "Identifier"
              /\ ListToken(2 * k - 1).type = "Comma"

\* the step fails in consume at the token
FailsAt(message, token) == ThrowsAt(message, token.span, token.type = "End")

\* the step goes on to the body with these parameters, the cursor at c
BodyFollows(parameters, c) ==
    /\ outcome' = "running"
    /\ current_' = c
    /\ stack'[1] = ExpressionFrame(DefaultFloor)
    /\ stack'[2].fn = "parse_function_literal"
    /\ stack'[2].parameters = parameters

C25_Grouping ==
    [][/\ Running("parse_grouping", "start") =>
             LET open == tokens_[current_] IN
             /\ open.type = "LeftParen"
             /\ open = Head(stack).open
             /\ IF Peek(current_).type = "RightParen"
                THEN /\ outcome' = "running"
                     /\ ret' = [kind |-> "Unit",
                                span |-> SourceSpan(open.span.start,
                                                    Peek(current_).span.end)]
                     /\ current_' = current_ + 1
                     /\ stack' = Tail(stack)
                ELSE /\ outcome' = "running"
                     /\ current_' = current_
                     /\ stack'[1] = ExpressionFrame(DefaultFloor)
                     /\ stack'[2].fn = "parse_grouping"
       /\ Running("parse_grouping", "after_expression") =>
             IF Peek(current_).type = "RightParen"
             THEN /\ outcome' = "running"
                  /\ ret' = [kind |-> "Grouping", expression |-> ret,
                             span |-> SourceSpan(Head(stack).open.span.start,
                                                 Peek(current_).span.end)]
                  /\ current_' = current_ + 1
                  /\ stack' = Tail(stack)
             ELSE ThrowsAt(<<"Expected ')' after expression">>,
                           Peek(current_).span, Peek(current_).type = "End")
      ]_vars

\* `( ( ) )` returned: the Grouping of a Unit, each spanning its parentheses
C25_Witness ==
    /\ outcome = "ok"
    /\ ret = [kind |-> "Grouping",
              expression |-> [kind |-> "Unit", span |-> SourceSpan(2, 5)],
              span |-> SourceSpan(0, 7)]

\* C26: no step of parse() changes the token vector, the line-offset table
\* or the source name; the cursor never decreases, and it moves only as
\* advance() moves it, one token at a time over tokens that are not End.
C26_CursorOnlyAdvances ==
    [][/\ tokens_' = tokens_
       /\ line_offsets_' = line_offsets_
       /\ source_name_' = source_name_
       /\ current_' >= current_
       /\ \A consumed \in current_ .. current_' - 1 :
              tokens_[consumed + 1].type # "End"
      ]_vars

\* parse() failed in the middle of the tokens and the cursor stays there
C26_Witness ==
    /\ outcome = "error"
    /\ current_ > 1
    /\ current_ < Len(tokens_) - 1
    /\ tokens_[current_ + 1].span = parseError.span

\* a token the returned tree accounts for: one inside the span of the tree,
\* or a ';'
InTree(token) ==
    \/ token.type = "Semicolon"
    \/ /\ ret.span.start <= token.span.start
       /\ token.span.end <= ret.span.end

\* C27: when parse() has returned a tree the cursor is on the final End
\* token and every token before it is inside the tree or is a ';'; and
\* when the top-level sequence returns before End, parse() fails with
\* "Expected end of input" at the token left over, not incomplete.
C27_NoTrailingTokens ==
    /\ [](outcome = "ok" =>
            /\ current_ = Len(tokens_) - 1
            /\ Peek(current_).type = "End"
            /\ \A position \in 1 .. Len(tokens_) - 1 : InTree(tokens_[position]))
    /\ [][Running("parse", "after_sequence") =>
             IF Peek(current_).type = "End"
             THEN outcome' = "ok" /\ current_' = current_
             ELSE ThrowsAt(<<"Expected end of input">>, Peek(current_).span, FALSE)
         ]_vars

\* a tree returned with the cursor on End, after a leading ';' was skipped
C27_Witness ==
    /\ outcome = "ok"
    /\ Len(tokens_) = 4
    /\ current_ = 3
    /\ tokens_[1].type = "Semicolon"
    /\ tokens_[3].type # "Semicolon"
    /\ ret.span.end = tokens_[3].span.end

\* parse() failed on a token left over after the top-level sequence
LeftOverToken ==
    /\ outcome = "error"
    /\ parseError.message = <<"Expected end of input">>
    /\ ~parseError.incomplete
    /\ current_ < Len(tokens_) - 1

\* parse() runs to its end: a sequential program always takes its next step
SpecParseFair == SpecParse /\ WF_vars(ParseNext)

ParseReturnedOrThrew == outcome \in {"ok", "error"}

\* what a routine called by parse_sequence returned starts at a token that
\* was consumed, after the statements collected so far
ConsumedByIteration ==
    /\ ret.span.start < ret.span.end
    /\ \E position \in 1 .. current_ :
          tokens_[position].span.start = ret.span.start
    /\ Head(stack).statements # <<>> =>
          Head(stack).statements[Len(Head(stack).statements)].span.end
             <= ret.span.start

\* C28: parse() terminates, with a tree or an error, and every turn of a
\* loop consumes a token or leaves the loop: parse_sequence skips one ';',
\* or gets from the routine it called a statement or expression made of
\* tokens consumed in this turn, and then goes on only past a ';' unless
\* the statement was a function declaration; the infix loop of
\* parse_expression consumes the operator or returns; the parameter loop of
\* parse_function_literal consumes a name and a comma per turn; and
\* parse_expression consumes a token before anything else.
C28_Terminates ==
    /\ <>ParseReturnedOrThrew
    /\ [][/\ current_' >= current_
          /\ (Running("parse_expression", "start") /\ outcome' = "running") =>
                current_' = current_ + 1
          /\ (InfixLoop /\ outcome' = "running" /\ stack' # Tail(stack)) =>
                current_' = current_ + 1
          /\ (Running("parse_sequence", "loop") /\ outcome' = "running"
                 /\ Len(stack') = Len(stack)) =>
                current_' = current_ + 1
          /\ (outcome = "running" /\ stack # <<>>
                 /\ Head(stack).fn = "parse_sequence"
                 /\ Head(stack).pc # "loop") =>
                /\ ConsumedByIteration
                /\ (outcome' = "running" /\ Len(stack') = Len(stack)) =>
                      IF Head(stack).pc = "after_fn"
                      THEN current_' = current_
                      ELSE current_' = current_ + 1
          /\ (Running("parse_function_literal", "start") /\ outcome' = "running") =>
                LET parameters == stack'[2].parameters IN
                current_' - current_ =
                   IF parameters = <<>> THEN 2 ELSE 2 * Len(parameters) + 1
         ]_vars

\* parse() returned after three turns of the top-level loop
C28_Witness ==
    /\ outcome = "ok"
    /\ ret.kind = "Block"
    /\ Len(ret.statements) = 2
    /\ ret.value # NoValue
    /\ current_ = Len(tokens_) - 1

\* C29: with the tokens the lexer gives, whose last and only End token is
\* the last one, the cursor is always the index of a token: no step moves
\* it once it is on End, and a step that moves it leaves it at 1 or more,
\* past a token that is not End, which is the token previous() then reads.
C29_CursorInRange ==
    /\ [](/\ Back.type = "End"
          /\ \A position \in 1 .. Len(tokens_) - 1 : tokens_[position].type # "End"
          /\ current_ \in 0 .. Len(tokens_) - 1)
    /\ [][/\ Peek(current_).type = "End" => current_' = current_
          /\ current_' # current_ =>
                /\ current_' >= 1
                /\ current_' - 1 \in 0 .. Len(tokens_) - 1
                /\ tokens_[current_'].type # "End"
         ]_vars

\* `)` was looked for at End: parse() failed with the cursor still on End
C29_Witness ==
    /\ outcome = "error"
    /\ parseError.incomplete
    /\ parseError.message = <<"Expected ')' after expression">>
    /\ current_ = Len(tokens_) - 1
    /\ current_ >= 2

\* the line is appended to the buffer, after a newline if the buffer holds
\* text, and the whole buffer is tokenized as source text
ReadAsSource(line) ==
    LET text == IF buffer = <<>> THEN line ELSE buffer \o <<"\n">> \o line IN
    /\ replAt' = "print_ast"
    /\ buffer' = text
    /\ source' = text
    /\ lexState' = tokenize(text).state
    /\ lexState' = "ok" => tokens_' = tokenize(text).tokens /\ outcome' = "idle"

\* C30: at the prompt, the end of the input ends the session; with an empty
\* buffer `quit` and `exit` end it and a blank line is skipped; any other
\* line, and with a snippet pending every line, `quit`, `exit` and blank
\* lines too, is appended to the buffer and read as source text.  So from
\* continuation mode the session ends only at the end of the input, and
\* the buffer is emptied only when the snippet was parsed or failed.
C30_QuitOnlyAtPrimaryPrompt ==
    [][/\ replAt = "input" =>
             IF raw_input'.null
             THEN replAt' = "done" /\ buffer' = buffer
             ELSE IF buffer = <<>> /\ IsQuit(raw_input'.line)
             THEN replAt' = "done" /\ buffer' = <<>>
             ELSE IF buffer = <<>> /\ IsBlank(raw_input'.line)
             THEN /\ replAt' = "input"
                  /\ buffer' = <<>>
                  /\ prompt' = prompt
                  /\ snippet_index' = snippet_index
             ELSE ReadAsSource(raw_input'.line)
       /\ (buffer # <<>> /\ replAt # "done" /\ replAt' = "done") =>
             replAt = "input" /\ raw_input'.null
       /\ (buffer # <<>> /\ buffer' = <<>>) =>
             /\ replAt = "print_ast"
             /\ \/ outcome = "ok"
                \/ outcome = "error" /\ ~parseError.incomplete
                \/ lexState = "error"
       /\ replAt = "done" => UNCHANGED vars
      ]_vars

\* `quit` typed at the continuation prompt after `1 +`: the buffer is
\* `1 +\nquit`, and it was parsed, quit being a variable
C30_Witness ==
    /\ replAt = "print_ast"
    /\ prompt = continuation_prompt
    /\ raw_input = InputLine(<<"q", "u", "i", "t">>)
    /\ buffer = <<"1", " ", "+", "\n", "q", "u", "i", "t">>
    /\ outcome = "ok"
    /\ Len(tokens_) = 4
    /\ tokens_[3].type = "Identifier"

====
